---- MODULE Spec2Model ----
(***************************************************************************)
(* Image-Flow: the filter execution engine.                                *)
(*                                                                         *)
(* The module models the pixel buffer (Image), the seven concrete filter   *)
(* classes, and FilterPipeline: its editing operations, its persistence    *)
(* operations and the stage loop of apply, including the accelerator       *)
(* dispatch / fallback protocol of the two SYCL filter variants.           *)
(*                                                                         *)
(* Three specifications share the variables:                               *)
(*   Spec        the editing operations of one pipeline                    *)
(*   SpecApply   one call of FilterPipeline::apply, stage by stage         *)
(*   SpecPersist saveToFile / loadFromFile and the file they work on       *)
(***************************************************************************)
EXTENDS Integers, Sequences, FiniteSets, TLC

(***************************************************************************)
(* Bounds of the model.                                                    *)
(***************************************************************************)
\* Filter instances created in one behaviour of Spec.
MaxIds == 3
\* Slots of the pipelines SpecApply and SpecPersist start from.
MaxStages == 2
\* Width and height of the input images.
MaxWidth == 3
MaxHeight == 1
\* Largest wall-clock duration a timed apply measures, in clock ticks.
MaxElapsed == 1
\* Slots of the longest pipeline SpecCalls starts from.
MaxLongStages == 45

(***************************************************************************)
(* size_t.  A size_t value v is written as its two's-complement signed     *)
(* reading: 0, 1, 2, ... are themselves and -1 is SIZE_MAX, -2 is          *)
(* SIZE_MAX - 1, ...  Subtraction and addition of 1 are then the integer   *)
(* ones (0 - 1 = -1 = SIZE_MAX) and only the unsigned order needs a        *)
(* definition.                                                             *)
(***************************************************************************)
SizeGe(a, b) ==
    IF (a >= 0) = (b >= 0) THEN a >= b ELSE a < 0

SizeGt(a, b) == SizeGe(a, b) /\ a # b

(***************************************************************************)
(* IEEE-754 arithmetic.  A non-negative binary fraction is held in fixed   *)
(* point as three limbs <<hi, mid, lo>> of base 2^20, in units of 2^-K     *)
(* (K = 32 for float, K = 60 for double), so every product, sum and        *)
(* quotient is exact before it is rounded to the format's 24 or 53         *)
(* significant bits, to nearest, ties to even.                             *)
(***************************************************************************)
LimbBase == 2^20

FxNorm(t) ==
    LET c0 == t[3] \div LimbBase
        m  == t[2] + c0
    IN  <<t[1] + (m \div LimbBase), m % LimbBase, t[3] % LimbBase>>

FxAdd(a, b) == FxNorm(<<a[1] + b[1], a[2] + b[2], a[3] + b[3]>>)

FxScale(a, n) == FxNorm(<<a[1] * n, a[2] * n, a[3] * n>>)

RECURSIVE BitLen(_)
BitLen(n) == IF n = 0 THEN 0 ELSE 1 + BitLen(n \div 2)

FxBitLen(a) ==
    IF a[1] > 0 THEN 40 + BitLen(a[1])
    ELSE IF a[2] > 0 THEN 20 + BitLen(a[2])
    ELSE BitLen(a[3])

\* a rounded to p significant bits; sticky: a dropped non-zero tail below a.
FxRound(a, p, sticky) ==
    LET s == FxBitLen(a) - p
    IN  IF s <= 0 THEN a
        ELSE LET unit == 2^s
                 rem  == a[3] % unit
                 half == unit \div 2
                 odd  == IF s < 20 THEN (a[3] \div unit) % 2 = 1
                                   ELSE a[2] % 2 = 1
                 up   == rem > half \/ (rem = half /\ (sticky \/ odd))
             IN  FxNorm(<<a[1], a[2], a[3] - rem + (IF up THEN unit ELSE 0)>>)

\* num / den in units of 2^-k, correctly rounded to p bits (a literal such
\* as 0.299f, or the float division value / 100.0f).
FxRatio(num, den, k, p) ==
    LET t  == IF k >= 40 THEN <<num * 2^(k - 40), 0, 0>>
                         ELSE <<0, num * 2^(k - 20), 0>>
        q2 == t[1] \div den
        c1 == (t[1] % den) * LimbBase + t[2]
        q1 == c1 \div den
        c0 == (c1 % den) * LimbBase + t[3]
        q0 == c0 \div den
    IN  FxRound(FxNorm(<<q2, q1, q0>>), p, c0 % den # 0)

\* The integer part: what static_cast<int> / static_cast<uint8_t> keeps.
FxTrunc(a, k) ==
    IF k >= 40 THEN a[1] \div 2^(k - 40)
               ELSE a[1] * 2^(40 - k) + (a[2] \div 2^(k - 20))

\* float: units of 2^-32, 24 significant bits.
F32(num, den) == FxRatio(num, den, 32, 24)
F32Mul(c, n) == FxRound(FxScale(c, n), 24, FALSE)
F32Add(a, b) == FxRound(FxAdd(a, b), 24, FALSE)
F32Trunc(a) == FxTrunc(a, 32)

\* double: units of 2^-60, 53 significant bits.
F64(num, den) == FxRatio(num, den, 60, 53)
F64Mul(c, n) == FxRound(FxScale(c, n), 53, FALSE)
F64Add(a, b) == FxRound(FxAdd(a, b), 53, FALSE)
F64Trunc(a) == FxTrunc(a, 60)

Min(a, b) == IF a < b THEN a ELSE b
Max(a, b) == IF a > b THEN a ELSE b

(***************************************************************************)
(* Image: width, height, channels and the row-major, channel-interleaved   *)
(* byte vector (1-based here: byte k of the code is px[k + 1]).            *)
(***************************************************************************)
\* Image() = default
DefaultImage == [w |-> 0, h |-> 0, c |-> 3, px |-> <<>>]

\* Image(width, height, channels): throws std::invalid_argument, or zeroes.
ImageCtorThrows(width, height, channels) ==
    width <= 0 \/ height <= 0 \/ channels <= 0

NewImage(width, height, channels) ==
    [w |-> width, h |-> height, c |-> channels,
     px |-> [k \in 1..(width * height * channels) |-> 0]]

\* Image::at: the bounds check and the element.
AtThrows(img, x, y, ch) ==
    x < 0 \/ x >= img.w \/ y < 0 \/ y >= img.h \/ ch < 0 \/ ch >= img.c

At(img, x, y, ch) == img.px[(y * img.w + x) * img.c + ch + 1]

\* The state std::move leaves its source in: the int members are copied,
\* the vector is emptied.
MovedFrom(img) == [img EXCEPT !.px = <<>>]

\* Pixel coordinates of byte k (1-based) of an image of the given shape.
PxX(k, width, channels) == ((k - 1) \div channels) % width
PxY(k, width, channels) == ((k - 1) \div channels) \div width
PxC(k, channels) == (k - 1) % channels

(***************************************************************************)
(* Filter instances.  type is the dynamic class; radius is kernelRadius /  *)
(* blurRadius; factor is brightnessFactor in hundredths (the float is      *)
(* factor / 100.0f, as the slider handler computes it); time is            *)
(* lastExecutionTime in clock ticks.  A null std::unique_ptr is Null.      *)
(***************************************************************************)
Null == [id |-> 0, type |-> "null", radius |-> 0, factor |-> 0, time |-> 0]

GpuTypes == {"GrayscaleFilterGPU", "BoxBlurFilterGPU"}

FilterTypes ==
    {"GrayscaleFilter", "InvertFilter", "BrightnessFilter", "BoxBlurFilter",
     "SepiaFilter"} \cup GpuTypes

\* The classes that keep a lastExecutionTime member and override
\* getLastExecutionTime; the others inherit Filter's, which returns 0.0.
TimedTypes == {"GrayscaleFilter", "BoxBlurFilter"} \cup GpuTypes

MakeFilter(i, t, r, f) ==
    [id |-> i, type |-> t, radius |-> r, factor |-> f, time |-> 0]

\* std::to_string(int), one string per character.
Digit(d) == <<"0", "1", "2", "3", "4", "5", "6", "7", "8", "9">>[d + 1]

RECURSIVE IntToString(_)
IntToString(n) ==
    IF n < 10 THEN <<Digit(n)>>
    ELSE IntToString(n \div 10) \o <<Digit(n % 10)>>

\* std::to_string(float) is printf("%f"): six decimals.  The float nearest
\* to factor / 100 is within 2^-24 of it, so the decimals are those of
\* factor / 100 followed by zeros.
FloatToString(f) ==
    IntToString(f \div 100)
        \o <<".", Digit((f % 100) \div 10), Digit(f % 10), "0", "0", "0", "0">>

\* getName()
GetName(f) ==
    CASE f.type = "GrayscaleFilter"    -> <<"Grayscale">>
      [] f.type = "GrayscaleFilterGPU" -> <<"Grayscale (GPU-SYCL)">>
      [] f.type = "InvertFilter"       -> <<"Invert">>
      [] f.type = "SepiaFilter"        -> <<"Sepia Tone">>
      [] f.type = "BrightnessFilter"   ->
            <<"Brightness (">> \o FloatToString(f.factor) \o <<")">>
      [] f.type = "BoxBlurFilter"      ->
            <<"Box Blur (radius=">> \o IntToString(f.radius) \o <<")">>
      [] f.type = "BoxBlurFilterGPU"   ->
            <<"BoxBlur GPU (r=">> \o IntToString(f.radius) \o <<")">>

\* typeid(filterRef).name(): the Itanium-ABI mangled class name.
TypeIdName(f) ==
    CASE f.type = "GrayscaleFilter"    -> "15GrayscaleFilter"
      [] f.type = "GrayscaleFilterGPU" -> "18GrayscaleFilterGPU"
      [] f.type = "InvertFilter"       -> "12InvertFilter"
      [] f.type = "SepiaFilter"        -> "11SepiaFilter"
      [] f.type = "BrightnessFilter"   -> "16BrightnessFilter"
      [] f.type = "BoxBlurFilter"      -> "13BoxBlurFilter"
      [] f.type = "BoxBlurFilterGPU"   -> "16BoxBlurFilterGPU"

\* supportsGPU()
SupportsGPU(f) ==
    f.type \in {"InvertFilter", "BoxBlurFilter"} \cup GpuTypes

(***************************************************************************)
(* The host filter bodies.                                                 *)
(***************************************************************************)
\* The values of a byte.
Bytes == 0..255

\* A value the program does not determine: what a read past the end of a
\* buffer, or of a member no initialiser has written, yields.  It stands
\* for every value of its type at once (every byte 0..255; the build
\* decides which), stays the same value once stored, and makes every byte
\* computed from it indeterminate too.
Indeterminate == 0 - 1

\* Whether concrete, an image as a run of the program holds it, is one of
\* the images that img stands for: the same dimensions, and the same byte
\* wherever img's byte is determined.
Describes(img, concrete) ==
    /\ concrete.w = img.w /\ concrete.h = img.h /\ concrete.c = img.c
    /\ Len(concrete.px) = Len(img.px)
    /\ \A k \in 1..Len(img.px) :
          /\ concrete.px[k] \in Bytes
          /\ img.px[k] # Indeterminate => concrete.px[k] = img.px[k]

C299 == F32(299, 1000)
C587 == F32(587, 1000)
C114 == F32(114, 1000)

\* static_cast<uint8_t>(0.299f * r + 0.587f * g + 0.114f * b)
Gray(r, g, b) ==
    IF Indeterminate \in {r, g, b} THEN Indeterminate
    ELSE F32Trunc(F32Add(F32Add(F32Mul(C299, r), F32Mul(C587, g)),
                         F32Mul(C114, b))) % 256

\* GrayscaleFilter::apply reads channels 0, 1 and 2 of every pixel through
\* the checked Image::at.
GrayscaleThrows(input) ==
    \E x \in 0..(input.w - 1), y \in 0..(input.h - 1), ch \in 0..2 :
        AtThrows(input, x, y, ch)

GrayscaleOutput(input) ==
    [w |-> input.w, h |-> input.h, c |-> 1,
     px |-> [k \in 1..(input.w * input.h) |->
                LET x == PxX(k, input.w, 1)
                    y == PxY(k, input.w, 1)
                IN  Gray(At(input, x, y, 0), At(input, x, y, 1),
                         At(input, x, y, 2))]]

\* An inversion about 256 instead of 255, saturated to a byte.
InvertOutputAbout256(input) ==
    [w |-> input.w, h |-> input.h, c |-> input.c,
     px |-> [k \in 1..(input.w * input.h * input.c) |->
                Min(255, 256 - input.px[k])]]

\* InvertFilter::apply
InvertOutput(input) ==
    [w |-> input.w, h |-> input.h, c |-> input.c,
     px |-> [k \in 1..(input.w * input.h * input.c) |->
                IF input.px[k] = Indeterminate THEN Indeterminate
                ELSE 255 - input.px[k]]]

\* BrightnessFilter::apply: pixel *= brightnessFactor, clamp, truncate.
Brighten(v, factor) ==
    IF v = Indeterminate THEN Indeterminate
    ELSE Min(255, F32Trunc(F32Mul(F32(factor, 100), v)))

BrightnessOutput(input, factor) ==
    [w |-> input.w, h |-> input.h, c |-> input.c,
     px |-> [k \in 1..(input.w * input.h * input.c) |->
                Brighten(At(input, PxX(k, input.w, input.c),
                                PxY(k, input.w, input.c), PxC(k, input.c)),
                         factor)]]

RECURSIVE SumAt(_, _, _)
SumAt(input, ch, cells) ==
    IF cells = {} THEN 0
    ELSE LET p    == CHOOSE q \in cells : TRUE
             v    == At(input, p[1], p[2], ch)
             rest == SumAt(input, ch, cells \ {p})
         IN  IF v = Indeterminate \/ rest = Indeterminate
             THEN Indeterminate ELSE v + rest

\* The samples of the (2r+1) x (2r+1) window that fall inside the image.
Window(input, x, y, r) ==
    {p \in ((x - r)..(x + r)) \X ((y - r)..(y + r)) :
        p[1] >= 0 /\ p[1] < input.w /\ p[2] >= 0 /\ p[2] < input.h}

\* static_cast<uint8_t>(clamp(sum / count)): sum is an integer below 2^24
\* and count at most 441, so the float quotient lies strictly between the
\* neighbouring integers whenever it is not one, and truncates to the
\* integer quotient.
BlurAverageHost(sum, count) ==
    IF sum = Indeterminate THEN Indeterminate
    ELSE Min(255, Max(0, sum \div count))

\* BoxBlurFilter::apply
BoxBlurOutput(input, r) ==
    [w |-> input.w, h |-> input.h, c |-> input.c,
     px |-> [k \in 1..(input.w * input.h * input.c) |->
                LET cells == Window(input, PxX(k, input.w, input.c),
                                    PxY(k, input.w, input.c), r)
                IN  BlurAverageHost(SumAt(input, PxC(k, input.c), cells),
                                    Cardinality(cells))]]

S393 == F64(393, 1000)
S769 == F64(769, 1000)
S189 == F64(189, 1000)
S349 == F64(349, 1000)
S686 == F64(686, 1000)
S168 == F64(168, 1000)
S272 == F64(272, 1000)
S534 == F64(534, 1000)
S131 == F64(131, 1000)

\* std::min(255, static_cast<int>(cr * r + cg * g + cb * b)), in double
SepiaTone(cr, cg, cb, r, g, b) ==
    IF Indeterminate \in {r, g, b} THEN Indeterminate
    ELSE Min(255, F64Trunc(F64Add(F64Add(F64Mul(cr, r), F64Mul(cg, g)),
                                  F64Mul(cb, b))))

\* SepiaFilter::apply: channels 0..2 of a pixel with at least 3 channels,
\* channel 0 alone otherwise; every other byte keeps the constructor's 0.
SepiaOutput(input) ==
    [w |-> input.w, h |-> input.h, c |-> input.c,
     px |-> [k \in 1..(input.w * input.h * input.c) |->
                LET x  == PxX(k, input.w, input.c)
                    y  == PxY(k, input.w, input.c)
                    ch == PxC(k, input.c)
                    r  == At(input, x, y, 0)
                    g  == At(input, x, y, 1)
                    b  == At(input, x, y, 2)
                IN  IF input.c >= 3
                    THEN CASE ch = 0 -> SepiaTone(S393, S769, S189, r, g, b)
                           [] ch = 1 -> SepiaTone(S349, S686, S168, r, g, b)
                           [] ch = 2 -> SepiaTone(S272, S534, S131, r, g, b)
                           [] OTHER  -> 0
                    ELSE IF ch = 0 THEN r ELSE 0]]

(***************************************************************************)
(* The accelerator kernels.  A read past the end of the input buffer is    *)
(* undefined: it yields an indeterminate byte, one per read, or the        *)
(* process faults (ExecuteOutcomes).                                       *)
(***************************************************************************)
ReadByte(px, index) ==
    IF index < Len(px) THEN px[index + 1] ELSE Indeterminate

\* GrayscaleFilterGPU's kernel: work-item i reads bytes 3i, 3i+1, 3i+2.
GrayscaleKernel(input) ==
    [w |-> input.w, h |-> input.h, c |-> 1,
     px |-> [k \in 1..(input.w * input.h) |->
                LET srcIdx == (k - 1) * 3
                IN  Gray(ReadByte(input.px, srcIdx),
                         ReadByte(input.px, srcIdx + 1),
                         ReadByte(input.px, srcIdx + 2))]]

\* BoxBlurFilterGPU's kernel: integer sum and integer division over the
\* window clipped to [xStart, xEnd] x [yStart, yEnd].
BoxBlurKernel(input, radius) ==
    [w |-> input.w, h |-> input.h, c |-> input.c,
     px |-> [k \in 1..(input.w * input.h * input.c) |->
                LET i      == (k - 1) \div input.c
                    y      == i \div input.w
                    x      == i % input.w
                    yStart == IF y - radius < 0 THEN 0 ELSE y - radius
                    yEnd   == IF y + radius >= input.h THEN input.h - 1
                                                      ELSE y + radius
                    xStart == IF x - radius < 0 THEN 0 ELSE x - radius
                    xEnd   == IF x + radius >= input.w THEN input.w - 1
                                                      ELSE x + radius
                    cells  == (xStart..xEnd) \X (yStart..yEnd)
                    sum    == SumAt(input, PxC(k, input.c), cells)
                    avg    == sum \div Cardinality(cells)
                IN  IF sum = Indeterminate THEN Indeterminate
                    ELSE IF avg > 255 THEN 255 ELSE IF avg < 0 THEN 0
                    ELSE avg]]

\* The kernel of an accelerator variant.
KernelOutput(f, input) ==
    IF f.type = "GrayscaleFilterGPU" THEN GrayscaleKernel(input)
    ELSE BoxBlurKernel(input, f.radius)

\* Whether the kernel of f reads past the end of the input's buffer:
\* GrayscaleFilterGPU's reads bytes up to 3 * totalPixels - 1.
KernelReadsPastEnd(f, input) ==
    f.type = "GrayscaleFilterGPU" /\ 3 * input.w * input.h > Len(input.px)

\* A fallback that forgets the variant's radius: a BoxBlurFilter of radius 1.
FallbackFilterDefault(f) ==
    IF f.type = "GrayscaleFilterGPU"
    THEN MakeFilter(0, "GrayscaleFilter", 0, 0)
    ELSE MakeFilter(0, "BoxBlurFilter", 1, 0)

\* The host object an accelerator variant falls back to:
\* GrayscaleFilter cpuFallback;  BoxBlurFilter cpuFallback(blurRadius);
FallbackFilter(f) ==
    IF f.type = "GrayscaleFilterGPU"
    THEN MakeFilter(0, "GrayscaleFilter", 0, 0)
    ELSE MakeFilter(0, "BoxBlurFilter", f.radius, 0)

\* output = Image(...), the first statement of every apply.
OutputShape(f, input) ==
    IF f.type \in {"GrayscaleFilter", "GrayscaleFilterGPU"}
    THEN NewImage(input.w, input.h, 1)
    ELSE NewImage(input.w, input.h, input.c)

\* apply of a host filter: whether it throws, and the output it leaves
\* (the freshly constructed image when it throws before the first write).
HostThrows(f, input) ==
    f.type = "GrayscaleFilter" /\ GrayscaleThrows(input)

HostOutput(f, input) ==
    IF HostThrows(f, input) THEN OutputShape(f, input)
    ELSE CASE f.type = "GrayscaleFilter"  -> GrayscaleOutput(input)
           [] f.type = "InvertFilter"     -> InvertOutput(input)
           [] f.type = "BrightnessFilter" -> BrightnessOutput(input, f.factor)
           [] f.type = "BoxBlurFilter"    -> BoxBlurOutput(input, f.radius)
           [] f.type = "SepiaFilter"      -> SepiaOutput(input)

(***************************************************************************)
(* The registry as registerAllFilters fills it: the instance each id's     *)
(* host and accelerator constructor builds (Null: no such constructor).    *)
(***************************************************************************)
RegisteredIds == {"grayscale", "invert", "brightness", "boxblur", "sepia"}

CreateCPU(name) ==
    CASE name = "grayscale"  -> MakeFilter(0, "GrayscaleFilter", 0, 0)
      [] name = "invert"     -> MakeFilter(0, "InvertFilter", 0, 0)
      [] name = "brightness" -> MakeFilter(0, "BrightnessFilter", 0, 100)
      [] name = "boxblur"    -> MakeFilter(0, "BoxBlurFilter", 2, 0)
      [] name = "sepia"      -> MakeFilter(0, "SepiaFilter", 0, 0)

CreateGPU(name) ==
    CASE name = "grayscale"  -> MakeFilter(0, "GrayscaleFilterGPU", 0, 0)
      [] name = "boxblur"    -> MakeFilter(0, "BoxBlurFilterGPU", 2, 0)
      [] OTHER               -> Null

\* FilterFactory::create
Create(name, useGPU) ==
    IF name \notin RegisteredIds THEN Null
    ELSE IF useGPU /\ CreateGPU(name) # Null THEN CreateGPU(name)
    ELSE CreateCPU(name)

\* Every instance the registry can hand out.
RegistryFilters == {Create(name, g) : name \in RegisteredIds, g \in BOOLEAN}

\* The instance with its identity: the address of the allocation.
WithId(f, i) == [f EXCEPT !.id = i]

(***************************************************************************)
(* Inputs.                                                                 *)
(***************************************************************************)
\* Valid images: every shape up to the bounds, 1 to 4 channels, bytes
\* 0, 85, 170, 255, 84, ... (steps of 85 modulo 256).
TestImage(width, height, channels) ==
    [w |-> width, h |-> height, c |-> channels,
     px |-> [k \in 1..(width * height * channels) |-> (85 * (k - 1)) % 256]]

Images ==
    {TestImage(width, height, channels) :
        width \in 1..MaxWidth, height \in 1..MaxHeight, channels \in 1..4}

\* Pipelines of registry filters, one fresh instance per slot.
StartPipelines ==
    UNION {{[i \in 1..n |-> WithId(p[i], i)] : p \in [1..n -> RegistryFilters]}
              : n \in 0..MaxStages}

\* Durations the clock may measure.
Durations == 1..MaxElapsed

(***************************************************************************)
(* State.                                                                  *)
(***************************************************************************)
VARIABLES
    filters,    \* FilterPipeline::filters: the slots, in application order
    nextId,     \* identity of the next filter instance to be allocated
    lastCall,   \* the last call of a pipeline operation and how it ended
    file,       \* the file saveToFile / loadFromFile work on
    pc,         \* position of the running apply
    idx,        \* slot the range-for of apply is at (1-based)
    input,      \* apply's parameter
    temp,       \* apply's local temp
    result,     \* apply's local result
    trace,      \* the stage inputs and outputs of the running apply
    path,       \* which path an accelerator variant's apply took
    measured,   \* the duration the current filter apply measured
    failure,    \* the exception that left apply, if one did
    entry,      \* the member function the running call entered
    given,      \* the caller's image as it was when the call began
    progress,   \* the invocations of applyWithProgress's callback so far
    metrics,    \* the PipelineMetrics record applyWithMetrics returned
    copy,       \* FilterPipeline::filters of a second pipeline object
    registry,   \* FilterFactory::filters: id -> the two constructors
    processingMode, \* FilterPipeline::processingMode
    copyMode,   \* processingMode of the second pipeline object
    heap,       \* the free store: which vector has storage, and its health
    window      \* MainWindow: its images, cached pointers, flags and runs

editVars == <<filters, nextId, lastCall>>
callVars == <<entry, given, progress, metrics>>
applyVars == <<pc, idx, input, temp, result, trace, path, measured, failure,
               callVars>>
objectVars == <<copy, registry, processingMode, copyMode, window>>
restVars == <<objectVars, heap>>
vars == <<filters, nextId, lastCall, file, pc, idx, input, temp, result,
          trace, path, measured, failure, entry, given, progress, metrics,
          copy, registry, processingMode, copyMode, heap, window>>

NoCall ==
    [op |-> "none", index |-> 0, arg |-> Null, status |-> "none",
     before |-> <<>>]

Call(o, i, a, s) ==
    [op |-> o, index |-> i, arg |-> a, status |-> s, before |-> filters]

NoFile == [state |-> "missing", entries |-> <<>>]

\* PipelineMetrics before applyWithMetrics has filled one: the struct has
\* no member initialisers, so a default-initialised record has two empty
\* vectors and an indeterminate totalTimeMs and gpuUsed.
NoMetrics ==
    [totalTimeMs |-> Indeterminate, filterTimes |-> <<>>,
     filterNames |-> <<>>, gpuUsed |-> Indeterminate]

\* The registry once the static FilterRegistrar has run registerAllFilters.
FullRegistry ==
    [name \in RegisteredIds |->
        [createCPU |-> CreateCPU(name), createGPU |-> CreateGPU(name)]]

\* An Image of the window as far as the window's handlers tell images
\* apart: the file it was loaded or computed from (0: a default-constructed
\* image, width 0) and its channel count.
Unloaded == [file |-> 0, channels |-> 3]

\* MainWindow after its constructor: no image, both cached pointers null
\* (0), previewEnabled = true, gpuEnabled = false, isProcessing = false,
\* setControlsEnabled(false) (controls: the widgets loadImage enables, the
\* save action with them), the apply button disabled, the preview timer
\* stopped, no applyWithProgress on the stack (runs), nothing displayed in
\* the processed label (shown), the save dialog closed and the process
\* alive (ended: std::terminate or a fault has ended it), no current row
\* in the filter list (row -1), the brightness slider and the radius spin
\* box disabled.
WindowIdle ==
    [originalImage |-> Unloaded, processedImage |-> Unloaded,
     shown |-> Unloaded,
     brightnessFilter |-> 0, blurFilter |-> 0,
     previewEnabled |-> TRUE, gpuEnabled |-> FALSE, isProcessing |-> FALSE,
     controls |-> FALSE, applyButton |-> FALSE, previewTimer |-> FALSE,
     saveDialog |-> FALSE, ended |-> FALSE,
     row |-> 0 - 1, slider |-> FALSE, spinBox |-> FALSE,
     runs |-> <<>>]

\* The free store as far as the pipelines depend on it: whether the vector
\* of each pipeline object has storage (a std::vector allocates at the first
\* push_back or insert, keeps its storage through erase and clear, and
\* hands it over when it is moved from), and whether an access outside a
\* vector's storage has corrupted the allocator's bookkeeping.  At the
\* start a pipeline that holds filters has storage and the heap is sound.
NewHeap(seq) ==
    [corrupt |-> FALSE, storage |-> seq # <<>>, copyStorage |-> FALSE]

\* Everything outside the pipeline at hand, untouched: no second pipeline
\* (a default-constructed one), the registry filled, the mode AUTO, the
\* heap sound, the window as constructed.
RestIdle ==
    /\ copy = <<>>
    /\ registry = FullRegistry
    /\ processingMode = "AUTO"
    /\ copyMode = "AUTO"
    /\ heap = NewHeap(filters)
    /\ window = WindowIdle

ApplyIdle ==
    /\ pc = "idle"
    /\ idx = 0
    /\ input = DefaultImage
    /\ temp = DefaultImage
    /\ result = DefaultImage
    /\ trace = <<>>
    /\ path = "none"
    /\ measured = 0
    /\ failure = "none"
    /\ entry = "none"
    /\ given = DefaultImage
    /\ progress = <<>>
    /\ metrics = NoMetrics

(***************************************************************************)
(* FilterPipeline: the editing operations.                                 *)
(***************************************************************************)
\* The filters a caller constructs itself and hands over.
EditFilters ==
    {MakeFilter(0, "GrayscaleFilter", 0, 0),
     MakeFilter(0, "BoxBlurFilter", 3, 0),
     MakeFilter(0, "BrightnessFilter", 0, 120)}

\* A std::unique_ptr argument: null, or a freshly allocated instance.
FilterArgs ==
    {Null} \cup (IF nextId <= MaxIds
                 THEN {WithId(f, nextId) : f \in EditFilters} ELSE {})

\* size_t arguments: SIZE_MAX and the small indices.
Indices == {-1} \cup 0..(MaxIds + 1)

Running == lastCall.status # "crash"

\* filters[i]: the entry at 0-based index i (slot i + 1 here).
Entry(seq, i) == seq[i + 1]

\* std::swap(filters[i], filters[j]), 0-based i and j.
Swap(seq, i, j) ==
    [k \in 1..Len(seq) |->
        IF k = i + 1 THEN seq[j + 1] ELSE IF k = j + 1 THEN seq[i + 1]
        ELSE seq[k]]

\* A call that allocates, frees or throws goes through the allocator.  On
\* a heap that an access outside a vector's storage has corrupted, the
\* allocator's consistency check can end the process there (abort) before
\* the call has done anything else.
Killed(o, i, a) ==
    /\ heap.corrupt
    /\ lastCall' = Call(o, i, a, "crash")
    /\ UNCHANGED <<filters, nextId, file, restVars, applyVars>>

\* addFilter(std::move(f)), f being null or what the caller has just
\* allocated: the throw, or the push_back.
AddFilter(f) ==
    /\ Running
    /\ \/ Killed("addFilter", 0, f)
       \/ /\ IF f = Null
             THEN /\ lastCall' = Call("addFilter", 0, f,
                                      "std::invalid_argument")
                  /\ UNCHANGED <<filters, nextId, heap>>
             ELSE /\ filters' = Append(filters, f)
                  /\ nextId' = nextId + 1
                  /\ heap' = [heap EXCEPT !.storage = TRUE]
                  /\ lastCall' = Call("addFilter", 0, f, "ok")
          /\ UNCHANGED <<file, objectVars, applyVars>>

\* insertFilter(index, std::move(f)): the range test, the null test, the
\* insert.
InsertFilter(index, f) ==
    /\ Running
    /\ \/ Killed("insertFilter", index, f)
       \/ /\ IF SizeGt(index, Len(filters))
             THEN /\ lastCall' = Call("insertFilter", index, f,
                                      "std::out_of_range")
                  /\ UNCHANGED <<filters, nextId, heap>>
             ELSE IF f = Null
             THEN /\ lastCall' = Call("insertFilter", index, f,
                                      "std::invalid_argument")
                  /\ UNCHANGED <<filters, nextId, heap>>
             ELSE /\ filters' = SubSeq(filters, 1, index) \o <<f>>
                                    \o SubSeq(filters, index + 1, Len(filters))
                  /\ nextId' = nextId + 1
                  /\ heap' = [heap EXCEPT !.storage = TRUE]
                  /\ lastCall' = Call("insertFilter", index, f, "ok")
          /\ UNCHANGED <<file, objectVars, applyVars>>

\* removeFilter(index): the throw, or the erase, which deletes the filter.
RemoveFilter(index) ==
    /\ Running
    /\ \/ Killed("removeFilter", index, Null)
       \/ /\ IF SizeGe(index, Len(filters))
             THEN /\ lastCall' = Call("removeFilter", index, Null,
                                      "std::out_of_range")
                  /\ UNCHANGED filters
             ELSE /\ filters' = SubSeq(filters, 1, index)
                                    \o SubSeq(filters, index + 2, Len(filters))
                  /\ lastCall' = Call("removeFilter", index, Null, "ok")
          /\ UNCHANGED <<nextId, file, restVars, applyVars>>

\* moveFilterUp(index): the early return, or the swap with the entry
\* before.
MoveFilterUp(index) ==
    /\ Running
    /\ IF index = 0 \/ SizeGe(index, Len(filters))
       THEN UNCHANGED filters
       ELSE filters' = Swap(filters, index, index - 1)
    /\ lastCall' = Call("moveFilterUp", index, Null, "ok")
    /\ UNCHANGED <<nextId, file, restVars, applyVars>>

\* std::swap(filters[index], filters[index + 1]) on a vector of size 0:
\* undefined.  A vector that never had storage has a null begin(), and the
\* access at a small offset from null ends the process (SIGSEGV).  A vector
\* that has storage left from earlier entries exchanges two words at
\* begin() + index: inside its own storage or the allocator's slack the
\* exchange goes unnoticed ("ok"); beyond it the words belong to the
\* allocator's bookkeeping, and the call returns with the heap corrupted
\* ("corrupt") or dies on an unmapped page ("crash").  Which of the three
\* depends on the capacity and on the allocator.
OutOfBoundsOutcomes(storage) ==
    IF storage THEN {"ok", "corrupt", "crash"} ELSE {"crash"}

\* filters.size() - 1 is SIZE_MAX on an empty pipeline, so only
\* index = SIZE_MAX returns early there; any other index goes on to the
\* swap of two elements the vector does not have.
MoveFilterDown(index) ==
    /\ Running
    /\ IF SizeGe(index, Len(filters) - 1)
       THEN /\ UNCHANGED <<filters, heap>>
            /\ lastCall' = Call("moveFilterDown", index, Null, "ok")
       ELSE IF index >= 0 /\ index + 1 < Len(filters)
       THEN /\ filters' = Swap(filters, index, index + 1)
            /\ lastCall' = Call("moveFilterDown", index, Null, "ok")
            /\ UNCHANGED heap
       ELSE /\ UNCHANGED filters
            /\ \E outcome \in OutOfBoundsOutcomes(heap.storage) :
                   /\ heap' = [heap EXCEPT
                                  !.corrupt = @ \/ outcome = "corrupt"]
                   /\ lastCall' =
                          Call("moveFilterDown", index, Null,
                               IF outcome = "crash" THEN "crash" ELSE "ok")
    /\ UNCHANGED <<nextId, file, objectVars, applyVars>>

\* clear(): every filter held is deleted.
Clear ==
    /\ Running
    /\ \/ filters # <<>> /\ Killed("clear", 0, Null)
       \/ /\ filters' = <<>>
          /\ lastCall' = Call("clear", 0, Null, "ok")
          /\ UNCHANGED <<nextId, file, restVars, applyVars>>

\* getDescription()
RECURSIVE JoinNames(_, _)
JoinNames(seq, i) ==
    IF i > Len(seq) THEN <<>>
    ELSE (IF i > 1 THEN <<" → ">> ELSE <<>>) \o GetName(seq[i])
             \o JoinNames(seq, i + 1)

GetDescription(seq) ==
    IF seq = <<>> THEN <<"Empty pipeline">>
    ELSE IntToString(Len(seq)) \o <<" filter(s): ">> \o JoinNames(seq, 1)

Init ==
    /\ filters = <<>>
    /\ nextId = 1
    /\ lastCall = NoCall
    /\ file = NoFile
    /\ ApplyIdle
    /\ RestIdle

Next ==
    \/ \E f \in FilterArgs : AddFilter(f)
    \/ \E index \in Indices, f \in FilterArgs : InsertFilter(index, f)
    \/ \E index \in Indices : RemoveFilter(index)
    \/ \E index \in Indices : MoveFilterUp(index)
    \/ \E index \in Indices : MoveFilterDown(index)
    \/ Clear

Spec == Init /\ [][Next]_vars

(***************************************************************************)
(* FilterPipeline: persistence.  The file is missing, holds what           *)
(* saveToFile wrote (one entry per slot: the name and the typeid name), or *)
(* holds something else.                                                   *)
(***************************************************************************)
SavedEntries(seq) ==
    [i \in 1..Len(seq) |->
        [name |-> GetName(seq[i]), type |-> TypeIdName(seq[i])]]

\* saveToFile: the stream does not open (false, the file untouched); or it
\* is truncated and every write succeeds (file.good()); or a write to the
\* file fails while the function runs, which takes a text larger than the
\* stream's buffer, and an incomplete text is left (false); or the text
\* is still in the stream's buffer when file.good() is returned and the
\* flush in the stream's destructor fails (true, the truncated file left
\* without the text).
SaveOutcomes == {"closed", "good", "bad", "unflushed"}

SaveToFile(outcome) ==
    /\ Running
    /\ CASE outcome = "closed" ->
               /\ UNCHANGED file
               /\ lastCall' = Call("saveToFile", 0, Null, "false")
         [] outcome = "good" ->
               /\ file' = [state |-> "saved", entries |-> SavedEntries(filters)]
               /\ lastCall' = Call("saveToFile", 0, Null, "true")
         [] outcome = "bad" ->
               /\ file' = [state |-> "malformed", entries |-> <<>>]
               /\ lastCall' = Call("saveToFile", 0, Null, "false")
         [] outcome = "unflushed" ->
               /\ file' = [state |-> "malformed", entries |-> <<>>]
               /\ lastCall' = Call("saveToFile", 0, Null, "true")
    /\ UNCHANGED <<filters, nextId, restVars, applyVars>>

\* loadFromFile: false when the stream does not open; otherwise the slots
\* are cleared and a GrayscaleFilter and a BrightnessFilter(1.2f) pushed,
\* whatever the file holds.  The stream and the filters are allocated.
LoadFromFile ==
    /\ Running
    /\ nextId + 1 <= MaxStages + MaxIds
    /\ \/ Killed("loadFromFile", 0, Null)
       \/ /\ IF file.state = "missing"
             THEN /\ lastCall' = Call("loadFromFile", 0, Null, "false")
                  /\ UNCHANGED <<filters, nextId, heap>>
             ELSE /\ filters' =
                         <<MakeFilter(nextId, "GrayscaleFilter", 0, 0),
                           MakeFilter(nextId + 1, "BrightnessFilter", 0, 120)>>
                  /\ nextId' = nextId + 2
                  /\ heap' = [heap EXCEPT !.storage = TRUE]
                  /\ lastCall' = Call("loadFromFile", 0, Null, "true")
          /\ UNCHANGED <<file, objectVars, applyVars>>

\* The environment: the file is overwritten with text that is not a saved
\* pipeline, or deleted.
FileDamaged ==
    /\ file.state # "malformed"
    /\ file' = [state |-> "malformed", entries |-> <<>>]
    /\ lastCall' = NoCall
    /\ UNCHANGED <<filters, nextId, restVars, applyVars>>

FileRemoved ==
    /\ file.state # "missing"
    /\ file' = NoFile
    /\ lastCall' = NoCall
    /\ UNCHANGED <<filters, nextId, restVars, applyVars>>

InitPersist ==
    /\ filters \in StartPipelines
    /\ nextId = MaxStages + 1
    /\ lastCall = NoCall
    /\ file = NoFile
    /\ ApplyIdle
    /\ RestIdle

NextPersist ==
    \/ \E outcome \in SaveOutcomes : SaveToFile(outcome)
    \/ LoadFromFile
    \/ FileDamaged
    \/ FileRemoved

SpecPersist == InitPersist /\ [][NextPersist]_vars

(***************************************************************************)
(* Two pipeline objects: copy construction, copy assignment, the editing   *)
(* operations on either object, and what a caller does to a filter it      *)
(* reaches through getFilter(index).  A filter object is its allocation:   *)
(* whatever changes a member of the object changes it in every slot that   *)
(* holds that allocation.                                                   *)
(***************************************************************************)
\* A clone that is the source's own allocation (a shared pointer).
CloneShared(f, i) == f

\* filter->clone(): std::make_unique<T>(*this), the implicit copy
\* constructor: a new allocation with every member copied.
Clone(f, i) == [f EXCEPT !.id = i]

\* The deep copy both copy operations make: one clone per slot, in order.
CloneAll(seq) == [k \in 1..Len(seq) |-> Clone(seq[k], nextId + k - 1)]

\* Allocations left for n more instances.
CanAllocate(n) == nextId + n - 1 <= MaxIds

\* Allocations left for n clones where whole pipelines are copied: two
\* more than the callers' own filters may use, so that a pipeline of two
\* filters, added or loaded, can be copied whole.
CanClone(n) == nextId + n - 1 <= MaxIds + 2

\* The number of instances a copy assignment clones.
Cloned(which) ==
    IF which = "second = first" THEN Len(filters)
    ELSE IF which = "first = second" THEN Len(copy) ELSE 0

\* A copy constructor that copies the pointers instead of cloning.
CopyConstructShallow ==
    /\ Running
    /\ \/ filters # <<>>
          /\ Killed("FilterPipeline(const FilterPipeline&)", 0, Null)
       \/ /\ copy' = filters
          /\ nextId' = nextId + Len(filters)
          /\ copyMode' = "AUTO"
          /\ heap' = [heap EXCEPT !.copyStorage = filters # <<>>]
          /\ lastCall' =
                 Call("FilterPipeline(const FilterPipeline&)", 0, Null, "ok")
          /\ UNCHANGED <<filters, file, registry, processingMode, window,
                         applyVars>>

\* FilterPipeline second(first);  The constructor copies the slots only:
\* the new object's processingMode is its member initialiser's, AUTO, and
\* its vector gets storage with the first clone pushed.
CopyConstruct ==
    /\ Running
    /\ \/ filters # <<>>
          /\ Killed("FilterPipeline(const FilterPipeline&)", 0, Null)
       \/ /\ copy' = CloneAll(filters)
          /\ nextId' = nextId + Len(filters)
          /\ copyMode' = "AUTO"
          /\ heap' = [heap EXCEPT !.copyStorage = filters # <<>>]
          /\ lastCall' =
                 Call("FilterPipeline(const FilterPipeline&)", 0, Null, "ok")
          /\ UNCHANGED <<filters, file, registry, processingMode, window,
                         applyVars>>

\* operator=: second = first; first = second; or first = first, which the
\* test this != &other turns into a no-op.  It assigns the slots only: the
\* target's filters are deleted and the source's clones pushed.
Assignments == {"second = first", "first = second", "first = first"}

CopyAssign(which) ==
    /\ Running
    /\ \/ /\ which # "first = first"
          /\ filters \o copy # <<>>
          /\ Killed("operator=", 0, Null)
       \/ /\ CASE which = "second = first" ->
                     /\ copy' = CloneAll(filters)
                     /\ nextId' = nextId + Len(filters)
                     /\ heap' = [heap EXCEPT
                                    !.copyStorage = @ \/ filters # <<>>]
                     /\ UNCHANGED filters
               [] which = "first = second" ->
                     /\ filters' = CloneAll(copy)
                     /\ nextId' = nextId + Len(copy)
                     /\ heap' = [heap EXCEPT !.storage = @ \/ copy # <<>>]
                     /\ UNCHANGED copy
               [] which = "first = first" ->
                     UNCHANGED <<filters, copy, nextId, heap>>
          /\ lastCall' = Call("operator=", 0, Null, which)
          /\ UNCHANGED <<file, registry, processingMode, copyMode, window,
                         applyVars>>

\* enum class ProcessingMode { AUTO, CPU_ONLY, GPU_PREFERRED };
ProcessingModes == {"AUTO", "CPU_ONLY", "GPU_PREFERRED"}

\* The positions at which the caller of the pipeline has control: before a
\* call, after it has returned or thrown, and inside the progress callback
\* of applyWithProgress.  A process that a fault, an abort or
\* std::terminate has ended makes no further call.
CallerHasControl ==
    /\ Running
    /\ failure \notin {"std::terminate", "fault"}
    /\ \/ pc \in {"idle", "returned", "threw"}
       \/ pc = "loop" /\ entry = "applyWithProgress" /\ idx > 1

\* void setProcessingMode(ProcessingMode mode) { processingMode = mode; }
\* The setter tests nothing; it runs wherever the caller has control.
SetProcessingMode(mode) ==
    /\ CallerHasControl
    /\ processingMode' = mode
    /\ UNCHANGED <<filters, nextId, lastCall, file, copy, copyMode, heap,
                   registry, window, applyVars>>

\* FilterPipeline second(std::move(first));  the defaulted move
\* constructor moves every member: the instances and the vector's storage
\* change owner, the source is left empty, and the new object takes the
\* source's processingMode.
MoveConstruct ==
    /\ Running
    /\ copy' = filters
    /\ filters' = <<>>
    /\ copyMode' = processingMode
    /\ heap' = [heap EXCEPT !.copyStorage = heap.storage, !.storage = FALSE]
    /\ lastCall' = Call("FilterPipeline(FilterPipeline&&)", 0, Null, "ok")
    /\ UNCHANGED <<nextId, file, registry, processingMode, window, applyVars>>

\* The defaulted move assignment: second = std::move(first); or
\* first = std::move(second).  Every member is assigned: the target's
\* instances are deleted and its storage freed, the source's instances and
\* storage change owner, the source is left empty, and the target takes the
\* source's processingMode.
MoveAssignments == {"second = std::move(first)", "first = std::move(second)"}

MoveAssign(which) ==
    /\ Running
    /\ \/ /\ IF which = "second = std::move(first)"
             THEN heap.copyStorage ELSE heap.storage
          /\ Killed("operator=(FilterPipeline&&)", 0, Null)
       \/ /\ IF which = "second = std::move(first)"
             THEN /\ copy' = filters
                  /\ filters' = <<>>
                  /\ copyMode' = processingMode
                  /\ heap' = [heap EXCEPT !.copyStorage = heap.storage,
                                          !.storage = FALSE]
                  /\ UNCHANGED processingMode
             ELSE /\ filters' = copy
                  /\ copy' = <<>>
                  /\ processingMode' = copyMode
                  /\ heap' = [heap EXCEPT !.storage = heap.copyStorage,
                                          !.copyStorage = FALSE]
                  /\ UNCHANGED copyMode
          /\ lastCall' = Call("operator=(FilterPipeline&&)", 0, Null, which)
          /\ UNCHANGED <<nextId, file, registry, window, applyVars>>

\* second.addFilter(f)
CopyAddFilter(f) ==
    /\ Running
    /\ \/ Killed("second.addFilter", 0, f)
       \/ /\ IF f = Null
             THEN /\ lastCall' = Call("second.addFilter", 0, f,
                                      "std::invalid_argument")
                  /\ UNCHANGED <<copy, nextId, heap>>
             ELSE /\ copy' = Append(copy, f)
                  /\ nextId' = nextId + 1
                  /\ heap' = [heap EXCEPT !.copyStorage = TRUE]
                  /\ lastCall' = Call("second.addFilter", 0, f, "ok")
          /\ UNCHANGED <<filters, file, registry, processingMode, copyMode,
                         window, applyVars>>

\* second.removeFilter(index)
CopyRemoveFilter(index) ==
    /\ Running
    /\ \/ Killed("second.removeFilter", index, Null)
       \/ /\ IF SizeGe(index, Len(copy))
             THEN /\ lastCall' = Call("second.removeFilter", index, Null,
                                      "std::out_of_range")
                  /\ UNCHANGED copy
             ELSE /\ copy' = SubSeq(copy, 1, index)
                                 \o SubSeq(copy, index + 2, Len(copy))
                  /\ lastCall' = Call("second.removeFilter", index, Null,
                                      "ok")
          /\ UNCHANGED <<filters, nextId, file, registry, processingMode,
                         copyMode, heap, window, applyVars>>

\* second.moveFilterUp(index)
CopyMoveFilterUp(index) ==
    /\ Running
    /\ IF index = 0 \/ SizeGe(index, Len(copy))
       THEN UNCHANGED copy
       ELSE copy' = Swap(copy, index, index - 1)
    /\ lastCall' = Call("second.moveFilterUp", index, Null, "ok")
    /\ UNCHANGED <<filters, nextId, file, registry, processingMode, copyMode,
                   heap, window, applyVars>>

\* The slots of one of the two pipeline objects.
Pipelines == {"first", "second"}

Pipe(which) == IF which = "first" THEN filters ELSE copy

OpName(which, name) ==
    IF which = "first" THEN name ELSE "second." \o name

\* The object at allocation id in its state after a change, in every slot
\* holding it.
Patch(seq, id, changed) ==
    [k \in 1..Len(seq) |-> IF seq[k].id = id THEN changed ELSE seq[k]]

\* The values a caller sets: a radius below the range
\* BoxBlurFilter::setRadius clamps to, and a brightness of 0.5.
RadiusArgs == {0}

BrightnessArgs == {50}

\* BoxBlurFilter::setRadius clamps to 1..10; BoxBlurFilterGPU::setRadius
\* stores what it is given.
StoredRadius(f, radius) ==
    IF f.type = "BoxBlurFilter" THEN Max(1, Min(radius, 10)) ELSE radius

\* getFilter(index), cast to the blur class, ->setRadius(radius)
SetRadius(which, index, radius) ==
    /\ Running
    /\ index \in 0..(Len(Pipe(which)) - 1)
    /\ Entry(Pipe(which), index).type \in {"BoxBlurFilter", "BoxBlurFilterGPU"}
    /\ LET f == Entry(Pipe(which), index)
           changed == [f EXCEPT !.radius = StoredRadius(f, radius)]
       IN  /\ filters' = Patch(filters, f.id, changed)
           /\ copy' = Patch(copy, f.id, changed)
    /\ lastCall' = Call(OpName(which, "setRadius"), index, Null, "ok")
    /\ UNCHANGED <<nextId, file, registry, processingMode, copyMode, heap,
                   window, applyVars>>

\* getFilter(index), cast to BrightnessFilter, ->setBrightness(factor)
SetBrightness(which, index, factor) ==
    /\ Running
    /\ index \in 0..(Len(Pipe(which)) - 1)
    /\ Entry(Pipe(which), index).type = "BrightnessFilter"
    /\ LET f == Entry(Pipe(which), index)
           changed == [f EXCEPT !.factor = factor]
       IN  /\ filters' = Patch(filters, f.id, changed)
           /\ copy' = Patch(copy, f.id, changed)
    /\ lastCall' = Call(OpName(which, "setBrightness"), index, Null, "ok")
    /\ UNCHANGED <<nextId, file, registry, processingMode, copyMode, heap,
                   window, applyVars>>

\* getFilter(index)->apply(image, out) of a class that keeps its time,
\* returning after having measured d.
FilterApplied(which, index, d) ==
    /\ Running
    /\ index \in 0..(Len(Pipe(which)) - 1)
    /\ Entry(Pipe(which), index).type \in TimedTypes
    /\ LET f == Entry(Pipe(which), index)
           changed == [f EXCEPT !.time = d]
       IN  /\ filters' = Patch(filters, f.id, changed)
           /\ copy' = Patch(copy, f.id, changed)
    /\ lastCall' = Call(OpName(which, "apply"), index, Null, "ok")
    /\ UNCHANGED <<nextId, file, registry, processingMode, copyMode, heap,
                   window, applyVars>>

\* The indices a caller of two small pipelines passes: the valid ones and
\* the first invalid ones.
CopyIndices == 0..MaxStages

\* A program with one empty pipeline; the file loadFromFile will be given
\* may exist already.
InitCopy ==
    /\ filters = <<>>
    /\ nextId = 1
    /\ lastCall = NoCall
    /\ file \in {NoFile, [state |-> "malformed", entries |-> <<>>]}
    /\ ApplyIdle
    /\ RestIdle

\* What a caller of the two pipelines hands over: null, or a new
\* BoxBlurFilter(3) (the other classes arrive through loadFromFile).
CopyArgs ==
    {Null} \cup (IF CanAllocate(1)
                 THEN {MakeFilter(nextId, "BoxBlurFilter", 3, 0)} ELSE {})

NextCopy ==
    \/ \E f \in CopyArgs : AddFilter(f)
    \/ \E index \in CopyIndices, f \in CopyArgs : InsertFilter(index, f)
    \/ \E index \in CopyIndices : RemoveFilter(index)
    \/ \E index \in CopyIndices : MoveFilterUp(index)
    \/ \E index \in CopyIndices : MoveFilterDown(index)
    \/ Clear
    \/ CanAllocate(2) /\ LoadFromFile
    \/ CanClone(Len(filters)) /\ CopyConstruct
    \/ \E which \in Assignments :
           CanClone(Cloned(which)) /\ CopyAssign(which)
    \/ MoveConstruct
    \/ \E which \in MoveAssignments : MoveAssign(which)
    \/ \E f \in CopyArgs : CopyAddFilter(f)
    \/ \E index \in CopyIndices : CopyRemoveFilter(index)
    \/ \E index \in CopyIndices : CopyMoveFilterUp(index)

SpecCopy == InitCopy /\ [][NextCopy]_vars

\* The two objects with the mode set on the first: what the copy and the
\* move operations do to processingMode.
NextModes ==
    \/ \E f \in CopyArgs : AddFilter(f)
    \/ \E mode \in ProcessingModes : SetProcessingMode(mode)
    \/ CanClone(Len(filters)) /\ CopyConstruct
    \/ \E which \in Assignments :
           CanClone(Cloned(which)) /\ CopyAssign(which)
    \/ MoveConstruct
    \/ \E which \in MoveAssignments : MoveAssign(which)

SpecModes == Init /\ [][NextModes]_vars

\* The same two objects with the calls that change a filter's members: what
\* a caller hands over here is a new BoxBlurFilter(3) or
\* BrightnessFilter(1.2f).
TwinArgs ==
    IF CanAllocate(1)
    THEN {MakeFilter(nextId, "BoxBlurFilter", 3, 0),
          MakeFilter(nextId, "BrightnessFilter", 0, 120)}
    ELSE {}

\* The indices a caller passes there: the first two slots.
TwinIndices == {0, 1}

\* The duration a direct apply measures there.
TwinDurations == {1}

NextTwin ==
    \/ \E f \in TwinArgs : AddFilter(f)
    \/ \E index \in TwinIndices : RemoveFilter(index)
    \/ \E index \in TwinIndices : MoveFilterUp(index)
    \/ CanAllocate(Len(filters)) /\ CopyConstruct
    \/ \E which \in Assignments :
           CanAllocate(Cloned(which)) /\ CopyAssign(which)
    \/ MoveConstruct
    \/ \E which \in MoveAssignments : MoveAssign(which)
    \/ \E f \in TwinArgs : CopyAddFilter(f)
    \/ \E index \in TwinIndices : CopyRemoveFilter(index)
    \/ \E index \in TwinIndices : CopyMoveFilterUp(index)
    \/ \E which \in Pipelines, index \in TwinIndices, radius \in RadiusArgs :
           SetRadius(which, index, radius)
    \/ \E which \in Pipelines, index \in TwinIndices,
            factor \in BrightnessArgs :
           SetBrightness(which, index, factor)
    \/ \E which \in Pipelines, index \in TwinIndices, d \in TwinDurations :
           FilterApplied(which, index, d)

SpecTwin == Init /\ [][NextTwin]_vars

(***************************************************************************)
(* FilterPipeline::apply(const Image&), one step per statement, and the    *)
(* apply of the filter each stage calls.                                   *)
(***************************************************************************)
Current == filters[idx]

SetTime(d) == [filters EXCEPT ![idx].time = d]

Event(e, image) == [ev |-> e, slot |-> idx, img |-> image]

\* An apply that takes its working image out of the caller's instead of
\* copying it.
ApplyStartMoving ==
    /\ pc = "idle"
    /\ entry = "apply"
    /\ result' = input
    /\ input' = MovedFrom(input)
    /\ IF filters = <<>>
       THEN /\ pc' = "returned"
            /\ UNCHANGED <<idx, temp>>
       ELSE /\ pc' = "loop"
            /\ temp' = DefaultImage
            /\ idx' = 1
    /\ UNCHANGED <<filters, nextId, lastCall, file, restVars,
                   callVars, trace, path, measured, failure>>

\* if (filters.empty()) return input;  Image result = input;  Image temp;
ApplyStart ==
    /\ pc = "idle"
    /\ entry = "apply"
    /\ IF filters = <<>>
       THEN /\ pc' = "returned"
            /\ result' = input
            /\ UNCHANGED <<idx, temp>>
       ELSE /\ pc' = "loop"
            /\ result' = input
            /\ temp' = DefaultImage
            /\ idx' = 1
    /\ UNCHANGED <<filters, nextId, lastCall, file, restVars,
                   callVars, input, trace, path,
                   measured, failure>>

\* applyWithProgress calls its callback right after each filter's apply:
\* the loop goes on once the callback of the stage just completed has run.
CallbackDone == entry = "applyWithProgress" => Len(progress) = idx - 1

\* A loop that hands every stage the pipeline's input instead of the
\* previous stage's output.
LoopStepStale ==
    /\ pc = "loop"
    /\ idx <= Len(filters)
    /\ CallbackDone
    /\ temp' = input
    /\ result' = MovedFrom(result)
    /\ trace' = Append(trace, Event("begin", temp'))
    /\ path' = "none"
    /\ measured' = 0
    /\ pc' = "call"
    /\ UNCHANGED <<filters, nextId, lastCall, file, restVars,
                   callVars, idx, input, failure>>

\* for (const auto& filter : filters) { temp = std::move(result);
LoopStep ==
    /\ pc = "loop"
    /\ idx <= Len(filters)
    /\ CallbackDone
    /\ temp' = result
    /\ result' = MovedFrom(result)
    /\ trace' = Append(trace, Event("begin", temp'))
    /\ path' = "none"
    /\ measured' = 0
    /\ pc' = "call"
    /\ UNCHANGED <<filters, nextId, lastCall, file, restVars,
                   callVars, idx, input, failure>>

\* return result;  (applyWithMetrics returns its record instead.)
ApplyReturn ==
    /\ pc = "loop"
    /\ idx > Len(filters)
    /\ entry # "applyWithMetrics"
    /\ CallbackDone
    /\ pc' = "returned"
    /\ UNCHANGED <<filters, nextId, lastCall, file, restVars,
                   callVars, idx, input, temp, result,
                   trace, path, measured, failure>>

\* An exception thrown by Image::at inside a filter's loop leaves apply as
\* std::out_of_range, or ends the process through std::terminate when the
\* loop is compiled as an OpenMP parallel region.
AtFailures == {"std::out_of_range", "std::terminate"}

\* filter->apply(temp, result) of a host filter.
HostCall ==
    /\ pc = "call"
    /\ Current.type \notin GpuTypes
    /\ result' = HostOutput(Current, temp)
    /\ IF HostThrows(Current, temp)
       THEN /\ pc' = "threw"
            /\ \E e \in AtFailures : failure' = e
            /\ UNCHANGED <<filters, idx, trace, measured>>
       ELSE /\ pc' = "loop"
            /\ idx' = idx + 1
            /\ trace' = Append(trace, Event("end", result'))
            /\ IF Current.type \in TimedTypes
               THEN \E d \in Durations :
                        /\ measured' = d
                        /\ filters' = SetTime(d)
               ELSE UNCHANGED <<filters, measured>>
            /\ UNCHANGED failure
    /\ UNCHANGED <<nextId, lastCall, file, restVars,
                   callVars, input, temp, path>>

\* An accelerator variant's apply, up to the try block: the output is
\* constructed and the clock read.
GpuEnter ==
    /\ pc = "call"
    /\ Current.type \in GpuTypes
    /\ result' = OutputShape(Current, temp)
    /\ pc' = "Attempt"
    /\ UNCHANGED <<filters, nextId, lastCall, file, restVars,
                   callVars, idx, input, temp, trace,
                   path, measured, failure>>

\* Attempt: sycl::queue q(sycl::gpu_selector_v) yields a queue, or throws
\* the sycl::exception of a missing or unusable device, which the handler
\* catches.
GpuAttempt ==
    /\ pc = "Attempt"
    /\ \E outcome \in {"queue", "sycl::exception"} :
          pc' = IF outcome = "queue" THEN "Execute" ELSE "Fallback"
    /\ UNCHANGED <<filters, nextId, lastCall, file, restVars,
                   callVars, idx, input, temp, result,
                   trace, path, measured, failure>>

\* What can end the rest of the try block: completion; a sycl::exception,
\* which the handler catches; in BoxBlurFilterGPU, which allocates its two
\* staging vectors there, a std::bad_alloc, which it does not; a fault of
\* the process when the kernel reads past the end of its input.
ExecuteOutcomes(f, image) ==
    {"completed", "sycl::exception"}
        \cup (IF f.type = "BoxBlurFilterGPU" THEN {"std::bad_alloc"} ELSE {})
        \cup (IF KernelReadsPastEnd(f, image) THEN {"fault"} ELSE {})

\* Execute: the buffers, q.submit(...).wait(), the copy back and the time.
GpuExecute ==
    /\ pc = "Execute"
    /\ \E outcome \in ExecuteOutcomes(Current, temp) :
          CASE outcome = "completed" ->
                  /\ result' = KernelOutput(Current, temp)
                  /\ \E d \in Durations :
                         /\ measured' = d
                         /\ filters' = SetTime(d)
                  /\ path' = "accelerator"
                  /\ pc' = "Done"
                  /\ UNCHANGED failure
            [] outcome = "sycl::exception" ->
                  /\ pc' = "Fallback"
                  /\ UNCHANGED <<filters, result, path, measured, failure>>
            [] OTHER ->
                  /\ pc' = "threw"
                  /\ failure' = outcome
                  /\ UNCHANGED <<filters, result, path, measured>>
    /\ UNCHANGED <<nextId, lastCall, file, restVars,
                   callVars, idx, input, temp, trace>>

\* Fallback: the catch handler runs the host filter on the same input and
\* output, then records the time.
GpuFallback ==
    /\ pc = "Fallback"
    /\ result' = HostOutput(FallbackFilter(Current), temp)
    /\ path' = "fallback"
    /\ IF HostThrows(FallbackFilter(Current), temp)
       THEN /\ pc' = "threw"
            /\ \E e \in AtFailures : failure' = e
            /\ UNCHANGED <<filters, measured>>
       ELSE /\ pc' = "Done"
            /\ \E d \in Durations :
                   /\ measured' = d
                   /\ filters' = SetTime(d)
            /\ UNCHANGED failure
    /\ UNCHANGED <<nextId, lastCall, file, restVars,
                   callVars, idx, input, temp, trace>>

\* Done: the accelerator variant's apply returns to the pipeline's loop.
GpuDone ==
    /\ pc = "Done"
    /\ pc' = "loop"
    /\ idx' = idx + 1
    /\ trace' = Append(trace, Event("end", result))
    /\ UNCHANGED <<filters, nextId, lastCall, file, restVars,
                   callVars, input, temp, result,
                   path, measured, failure>>

InitApply ==
    /\ filters \in StartPipelines
    /\ nextId = MaxStages + 1
    /\ lastCall = NoCall
    /\ file = NoFile
    /\ pc = "idle"
    /\ idx = 0
    /\ input \in Images
    /\ temp = DefaultImage
    /\ result = DefaultImage
    /\ trace = <<>>
    /\ path = "none"
    /\ measured = 0
    /\ failure = "none"
    /\ entry = "apply"
    /\ given = input
    /\ progress = <<>>
    /\ metrics = NoMetrics
    /\ RestIdle

NextApply ==
    \/ ApplyStart
    \/ LoopStep
    \/ ApplyReturn
    \/ HostCall
    \/ GpuEnter
    \/ GpuAttempt
    \/ GpuExecute
    \/ GpuFallback
    \/ GpuDone

SpecApply == InitApply /\ [][NextApply]_vars

(***************************************************************************)
(* The other entry points: apply(Image&&), applyWithProgress and           *)
(* applyWithMetrics.  They share the loop above.                           *)
(***************************************************************************)
\* An apply(Image&&) that returns what is left of its parameter after the
\* move.
MoveStartEmptied ==
    /\ pc = "idle"
    /\ entry = "apply(Image&&)"
    /\ result' = MovedFrom(input)
    /\ input' = MovedFrom(input)
    /\ IF filters = <<>>
       THEN /\ pc' = "returned"
            /\ UNCHANGED <<idx, temp>>
       ELSE /\ pc' = "loop"
            /\ temp' = DefaultImage
            /\ idx' = 1
    /\ UNCHANGED <<filters, nextId, lastCall, file, restVars,
                   callVars, trace, path, measured, failure>>

\* apply(Image&&): if (filters.empty()) return std::move(input);
\* Image result = std::move(input);  Image temp;
MoveStart ==
    /\ pc = "idle"
    /\ entry = "apply(Image&&)"
    /\ result' = input
    /\ input' = MovedFrom(input)
    /\ IF filters = <<>>
       THEN /\ pc' = "returned"
            /\ UNCHANGED <<idx, temp>>
       ELSE /\ pc' = "loop"
            /\ temp' = DefaultImage
            /\ idx' = 1
    /\ UNCHANGED <<filters, nextId, lastCall, file, restVars,
                   callVars, trace, path, measured, failure>>

\* applyWithProgress: if (filters.empty()) return input;
\* Image result = input;  float progressStep = 100.0f / filters.size();
ProgressStart ==
    /\ pc = "idle"
    /\ entry = "applyWithProgress"
    /\ IF filters = <<>>
       THEN /\ pc' = "returned"
            /\ result' = input
            /\ UNCHANGED <<idx, temp>>
       ELSE /\ pc' = "loop"
            /\ result' = input
            /\ temp' = DefaultImage
            /\ idx' = 1
    /\ UNCHANGED <<filters, nextId, lastCall, file, restVars,
                   callVars, input, trace, path,
                   measured, failure>>

\* float progressStep = 100.0f / filters.size();
ProgressStep == F32(100, Len(filters))

\* (i + 1) * progressStep, for the stage counted from 1.
Percent(k) == F32Mul(ProgressStep, k)

\* callback((i + 1) * progressStep, filters[i]->getName());  The record
\* keeps what the callback was handed and what had happened by then: the
\* number of stage events and the image the stage left in result.
ProgressCallback ==
    /\ pc = "loop"
    /\ entry = "applyWithProgress"
    /\ Len(progress) < idx - 1
    /\ progress' = Append(progress,
                          [percent |-> Percent(idx - 1),
                           name |-> GetName(filters[idx - 1]),
                           events |-> Len(trace),
                           seen |-> result])
    /\ UNCHANGED <<filters, nextId, lastCall, file, restVars,
                   entry, given, metrics, pc, idx, input, temp, result,
                   trace, path, measured, failure>>

\* applyWithMetrics(input): the stages run as in apply, from a copy of the
\* input.
MetricsStart ==
    /\ pc = "idle"
    /\ entry = "applyWithMetrics"
    /\ pc' = "loop"
    /\ result' = input
    /\ temp' = DefaultImage
    /\ idx' = 1
    /\ UNCHANGED <<filters, nextId, lastCall, file, restVars,
                   callVars, input, trace, path,
                   measured, failure>>

\* A record whose flag looks at the filters alone.
GpuUsedAnyMode ==
    \E i \in 1..Len(filters) : SupportsGPU(filters[i])

\* Whether a stage engaged the accelerator: some filter supports it and the
\* processing mode lets it.
GpuUsed ==
    /\ \E i \in 1..Len(filters) : SupportsGPU(filters[i])
    /\ processingMode # "CPU_ONLY"

\* The record applyWithMetrics hands back once the last stage is through:
\* the total elapsed time, and per stage the filter's last execution time
\* and name.  The call is recorded with the processing mode it read.
MetricsReturn ==
    /\ pc = "loop"
    /\ idx > Len(filters)
    /\ entry = "applyWithMetrics"
    /\ \E total \in Durations :
          metrics' = [totalTimeMs |-> total,
                      filterTimes |-> [i \in 1..Len(filters) |->
                                          filters[i].time],
                      filterNames |-> [i \in 1..Len(filters) |->
                                          GetName(filters[i])],
                      gpuUsed |-> GpuUsed]
    /\ lastCall' = Call("applyWithMetrics", 0, processingMode, "ok")
    /\ pc' = "returned"
    /\ UNCHANGED <<filters, nextId, file, restVars,
                   entry, given, progress, idx, input, temp, result,
                   trace, path, measured, failure>>

\* The four entry points.
Entries ==
    {"apply", "apply(Image&&)", "applyWithProgress", "applyWithMetrics"}

\* Filters the calls are followed through: a host filter, one that throws
\* on fewer than three channels, and an accelerator variant.
CallFilters ==
    {CreateCPU("invert"), CreateCPU("grayscale"), CreateGPU("grayscale")}

CallPipelines ==
    UNION {{[i \in 1..n |-> WithId(p[i], i)] : p \in [1..n -> CallFilters]}
              : n \in 0..MaxStages}

\* Longer pipelines, of one filter repeated.
LongPipelines ==
    {[i \in 1..n |-> WithId(CreateCPU("invert"), i)]
        : n \in (MaxStages + 1)..MaxLongStages}

InitCalls ==
    /\ \/ filters \in CallPipelines /\ input \in Images
       \/ filters \in LongPipelines /\ input = TestImage(1, 1, 1)
    /\ nextId = MaxLongStages + 1
    /\ lastCall = NoCall
    /\ file = NoFile
    /\ pc = "idle"
    /\ idx = 0
    /\ temp = DefaultImage
    /\ result = DefaultImage
    /\ trace = <<>>
    /\ path = "none"
    /\ measured = 0
    /\ failure = "none"
    /\ entry \in Entries
    /\ given = input
    /\ progress = <<>>
    /\ metrics = NoMetrics
    /\ RestIdle

NextCalls ==
    \/ \E mode \in ProcessingModes : SetProcessingMode(mode)
    \/ ApplyStart
    \/ MoveStart
    \/ ProgressStart
    \/ MetricsStart
    \/ LoopStep
    \/ ProgressCallback
    \/ ApplyReturn
    \/ MetricsReturn
    \/ HostCall
    \/ GpuEnter
    \/ GpuAttempt
    \/ GpuExecute
    \/ GpuFallback
    \/ GpuDone

SpecCalls == InitCalls /\ [][NextCalls]_vars

(***************************************************************************)
(* FilterFactory: the registry as state.                                   *)
(***************************************************************************)
\* An id no registration uses.
FactoryIds == RegisteredIds \cup {"emboss"}

\* FilterFactory::filters before any registration.
NoRegistry == [name \in {} |-> Null]

\* The statement of registerAllFilters for one id (registerFilter,
\* registerFilterWithGPU, registerParameterizedFilter or
\* registerParameterizedFilterWithGPU): filters[id] = info;
Register(id) ==
    /\ registry' = [name \in DOMAIN registry \cup {id} |->
                       IF name = id
                       THEN [createCPU |-> CreateCPU(id),
                             createGPU |-> CreateGPU(id)]
                       ELSE registry[name]]
    /\ UNCHANGED <<filters, nextId, lastCall, file, copy, processingMode,
                   copyMode, heap, window, applyVars>>

\* getFilterIds()
GetFilterIds == DOMAIN registry

\* hasFilter(id)
HasFilter(id) == id \in DOMAIN registry

\* A call of create, what it returned, and what getFilterIds() listed then.
CreateCall(id, useGPU, made) ==
    [op |-> "create", index |-> 0, arg |-> made, status |-> "returned",
     before |-> filters, id |-> id, useGPU |-> useGPU,
     listed |-> GetFilterIds]

\* A create that always takes the host constructor.
FactoryCreateHostOnly(id, useGPU) ==
    /\ nextId <= MaxIds
    /\ IF ~HasFilter(id)
       THEN /\ lastCall' = CreateCall(id, useGPU, Null)
            /\ UNCHANGED nextId
       ELSE /\ lastCall' = CreateCall(id, useGPU,
                                      WithId(registry[id].createCPU, nextId))
            /\ nextId' = nextId + 1
    /\ UNCHANGED <<filters, file, restVars, applyVars>>

\* create(id, useGPU): nullptr for an id not found; createGPU() if useGPU
\* and createGPU is set; createCPU() otherwise.
FactoryCreate(id, useGPU) ==
    /\ nextId <= MaxIds
    /\ IF ~HasFilter(id)
       THEN /\ lastCall' = CreateCall(id, useGPU, Null)
            /\ UNCHANGED nextId
       ELSE /\ lastCall' =
                  CreateCall(id, useGPU,
                             WithId(IF useGPU /\ registry[id].createGPU # Null
                                    THEN registry[id].createGPU
                                    ELSE registry[id].createCPU,
                                    nextId))
            /\ nextId' = nextId + 1
    /\ UNCHANGED <<filters, file, restVars, applyVars>>

InitFactory ==
    /\ filters = <<>>
    /\ nextId = 1
    /\ lastCall = NoCall
    /\ file = NoFile
    /\ ApplyIdle
    /\ copy = <<>>
    /\ registry = NoRegistry
    /\ processingMode = "AUTO"
    /\ copyMode = "AUTO"
    /\ heap = NewHeap(filters)
    /\ window = WindowIdle

NextFactory ==
    \/ \E id \in RegisteredIds : Register(id)
    \/ \E id \in FactoryIds, useGPU \in BOOLEAN : FactoryCreate(id, useGPU)

SpecFactory == InitFactory /\ [][NextFactory]_vars

\* filters[id] = info;  on a std::map: the entry of id is info whether or
\* not id had one, every other entry stays.
Assign(reg, id, info) ==
    [name \in DOMAIN reg \cup {id} |-> IF name = id THEN info ELSE reg[name]]

\* The FilterInfo a register* call builds from the classes registerAllFilters
\* instantiates it with for the id like.
InfoOf(like) == [createCPU |-> CreateCPU(like), createGPU |-> CreateGPU(like)]

\* A call of a register* function and the registry it found.
RegisterCall(id, like) ==
    [op |-> "register", index |-> 0, arg |-> Null, status |-> "returned",
     before |-> filters, id |-> id, like |-> like, held |-> registry]

\* A registration that leaves an id alone once it has an entry.
RegisterFilterOnce(id, like) ==
    /\ registry' = IF HasFilter(id) THEN registry
                   ELSE Assign(registry, id, InfoOf(like))
    /\ lastCall' = RegisterCall(id, like)
    /\ UNCHANGED <<filters, nextId, file, copy, processingMode, copyMode, heap,
                   window, applyVars>>

\* register*<classes>(id, ...): FilterInfo info; ...; filters[id] = info;
RegisterFilter(id, like) ==
    /\ registry' = Assign(registry, id, InfoOf(like))
    /\ lastCall' = RegisterCall(id, like)
    /\ UNCHANGED <<filters, nextId, file, copy, processingMode, copyMode, heap,
                   window, applyVars>>

\* The ids in the order registerAllFilters registers them.
RegistrationOrder ==
    <<"grayscale", "invert", "brightness", "boxblur", "sepia">>

\* The registry after the first n statements of registerAllFilters.
RECURSIVE AfterStatements(_, _)
AfterStatements(reg, n) ==
    IF n = 0 THEN reg
    ELSE Assign(AfterStatements(reg, n - 1), RegistrationOrder[n],
                InfoOf(RegistrationOrder[n]))

\* registerAllFilters(), as the static FilterRegistrar and main call it.
RegisterAllFilters ==
    /\ registry' = AfterStatements(registry, Len(RegistrationOrder))
    /\ lastCall' = [RegisterCall("", "") EXCEPT !.op = "registerAllFilters"]
    /\ UNCHANGED <<filters, nextId, file, copy, processingMode, copyMode, heap,
                   window, applyVars>>

\* getFilterInfo(id): the entry, or nullptr.
GetFilterInfo(id) == IF HasFilter(id) THEN registry[id] ELSE Null

\* Ids registered a second time, and the classes they are registered with.
AgainIds == {"invert", "boxblur", "emboss"}

NextRegistry ==
    \/ RegisterAllFilters
    \/ \E id \in AgainIds, like \in {"invert", "boxblur"} :
           RegisterFilter(id, like)
    \/ \E id \in AgainIds, useGPU \in BOOLEAN : FactoryCreate(id, useGPU)

SpecRegistry == InitFactory /\ [][NextRegistry]_vars

(***************************************************************************)
(* Image construction, with int as the 32-bit type it is.                  *)
(***************************************************************************)
\* x + y in int, wrapped to 32 bits.
AddInt(x, y) ==
    IF x > 0 /\ y > 0 /\ x > (2^30 - 1) + 2^30 - y
    THEN ((x - 2^30) - 2^30) + ((y - 2^30) - 2^30)
    ELSE IF x < 0 /\ y < 0 /\ x < (0 - 2^30) - 2^30 - y
    THEN ((x + 2^30) + 2^30) + ((y + 2^30) + 2^30)
    ELSE x + y

\* a * b in int, wrapped to 32 bits, for b >= 0.
RECURSIVE MulInt(_, _)
MulInt(a, b) ==
    IF b = 0 THEN 0
    ELSE LET half == MulInt(a, b \div 2)
         IN  AddInt(AddInt(half, half), IF b % 2 = 1 THEN a ELSE 0)

\* Whether width * height * channels leaves the range of int, for positive
\* operands.
Overflows(width, height, channels) ==
    \/ width > ((2^30 - 1) + 2^30) \div height
    \/ width * height > ((2^30 - 1) + 2^30) \div channels

\* What a signed overflow does: the arithmetic wraps, or the build traps it.
OverflowOutcomes == {"wraps", "traps"}

\* A call of the constructor or of createEmptyLike and its arguments.
ImageCall(o, width, height, channels) ==
    [op |-> o, index |-> 0, arg |-> Null, status |-> "returned",
     before |-> filters, width |-> width, height |-> height,
     channels |-> channels]

\* What Image(width, height, channels) leaves: the exception, or the image
\* whose vector was resized to the int product converted to size_t (a
\* negative int is a size beyond max_size()).
Constructed(width, height, channels, outcome) ==
    IF ImageCtorThrows(width, height, channels)
    THEN [failure |-> "std::invalid_argument", img |-> DefaultImage]
    ELSE IF Overflows(width, height, channels) /\ outcome = "traps"
    THEN [failure |-> "abort", img |-> DefaultImage]
    ELSE LET n == MulInt(MulInt(width, height), channels)
         IN  IF n < 0
             THEN [failure |-> "std::length_error", img |-> DefaultImage]
             ELSE [failure |-> "none",
                   img |-> [w |-> width, h |-> height, c |-> channels,
                            px |-> [k \in 1..n |-> 0]]]

\* Image img(width, height, channels);  in a fresh scope: the caller holds
\* the image constructed, or none when the constructor threw.  A process
\* the overflow trap has ended (abort) constructs nothing further.
Construct(width, height, channels) ==
    \E outcome \in OverflowOutcomes :
        LET made == Constructed(width, height, channels, outcome)
        IN  /\ failure # "abort"
            /\ failure' = made.failure
            /\ result' = made.img
            /\ input' = DefaultImage
            /\ lastCall' = ImageCall("Image", width, height, channels)
            /\ UNCHANGED <<filters, nextId, file, restVars, callVars, pc, idx,
                           temp, trace, path, measured>>

\* img = source.createEmptyLike(), source being the caller's image:
\* return Image(m_width, m_height, m_channels);
EmptyLike ==
    \E outcome \in OverflowOutcomes :
        LET made == Constructed(result.w, result.h, result.c, outcome)
        IN  /\ failure # "abort"
            /\ failure' = made.failure
            /\ input' = result
            /\ result' = IF made.failure = "none" THEN made.img ELSE result
            /\ lastCall' = ImageCall("createEmptyLike",
                                     result.w, result.h, result.c)
            /\ UNCHANGED <<filters, nextId, file, restVars, callVars, pc, idx,
                           temp, trace, path, measured>>

\* Dimensions a caller passes: non-positive and small ones in every
\* combination, and large ones whose product leaves the range of int
\* (46341 is the smallest int whose square does).
SmallDimensions == {0 - 1, 0, 1, 2, 3}

LargeDimensions ==
    {<<65536, 65536, 1>>, <<65536, 65536, 3>>, <<65536, 32768, 2>>,
     <<46341, 46341, 1>>, <<46341, 65536, 1>>, <<32768, 32768, 3>>}

DimensionArgs ==
    (SmallDimensions \X SmallDimensions \X SmallDimensions)
        \cup LargeDimensions

NextImage ==
    \/ \E dims \in DimensionArgs : Construct(dims[1], dims[2], dims[3])
    \/ EmptyLike

\* A program holding a default-constructed Image.
SpecImage == Init /\ [][NextImage]_vars

(***************************************************************************)
(* A filter applied with one Image object as input and output, as the      *)
(* filter chain of test_filters.cpp does.                                  *)
(***************************************************************************)
\* The host filters the registry builds.
HostFilters == {CreateCPU(name) : name \in RegisteredIds}

\* A call of f.apply on the caller's image and the image as it was.
FilterCall(o, f) ==
    [op |-> o, index |-> 0, arg |-> f, status |-> "returned",
     before |-> filters, image |-> input]

\* f.apply(img, img): output = Image(width, height, channels) replaces the
\* one object by a zero-filled image, and the loop then computes every byte
\* from that object: from its zeros, or from bytes already written, which
\* were computed from zeros.
ApplyInPlace(f) ==
    /\ failure = "none"
    /\ LET cleared == OutputShape(f, input)
       IN  /\ input' = HostOutput(f, cleared)
           /\ IF HostThrows(f, cleared)
              THEN \E e \in AtFailures : failure' = e
              ELSE UNCHANGED failure
    /\ lastCall' = FilterCall("apply(img, img)", f)
    /\ UNCHANGED <<filters, nextId, file, restVars, callVars, pc, idx,
                   temp, result, trace, path, measured>>

\* f.apply(img, out) with a distinct output.
ApplyDistinct(f) ==
    /\ failure = "none"
    /\ result' = HostOutput(f, input)
    /\ IF HostThrows(f, input)
       THEN \E e \in AtFailures : failure' = e
       ELSE UNCHANGED failure
    /\ lastCall' = FilterCall("apply(img, out)", f)
    /\ UNCHANGED <<filters, nextId, file, restVars, callVars, pc, idx,
                   input, temp, trace, path, measured>>

\* A program holding an image img and a default-constructed out.
InitInPlace ==
    /\ filters = <<>>
    /\ nextId = 1
    /\ lastCall = NoCall
    /\ file = NoFile
    /\ pc = "idle"
    /\ idx = 0
    /\ input \in Images
    /\ temp = DefaultImage
    /\ result = DefaultImage
    /\ trace = <<>>
    /\ path = "none"
    /\ measured = 0
    /\ failure = "none"
    /\ entry = "none"
    /\ given = input
    /\ progress = <<>>
    /\ metrics = NoMetrics
    /\ RestIdle

NextInPlace ==
    \/ \E f \in HostFilters : ApplyInPlace(f)
    \/ \E f \in HostFilters : ApplyDistinct(f)

SpecInPlace == InitInPlace /\ [][NextInPlace]_vars

(***************************************************************************)
(* MainWindow: the handlers of the window's events over its pipeline       *)
(* (filters).  An image is told apart by the file it came from and its     *)
(* channel count.  The event loop dispatches one handler at a time; while  *)
(* applyWithProgress is on the stack (window.runs) its progress callback   *)
(* is inside QApplication::processEvents(), which dispatches the same      *)
(* handlers, the timeout of the preview timer included.                    *)
(***************************************************************************)
\* Nested applyWithProgress calls followed (each started from the progress
\* callback of the one below it).
MaxRuns == 1

\* The files the open dialog can hand to loadImage: stbi_load keeps the
\* channel count of the file.
LoadableImages ==
    {[file |-> 1, channels |-> 1], [file |-> 2, channels |-> 3]}

\* The menu entries of onAddFilter chosen: the class that throws on a
\* one-channel image, and the two classes whose instances the window
\* caches a pointer to; grayscale and boxblur have accelerator variants.
MenuIds == {"grayscale", "brightness", "boxblur"}

\* Values the brightness slider (0..300) and the radius spin box (1..10)
\* emit.
SliderValues == {50}

SpinBoxValues == {3}

\* The record of a dispatched handler: whether isProcessing was set and how
\* many applyWithProgress calls were on the stack when it ran.
WindowCall(o, i, a, s) ==
    [op |-> o, index |-> i, arg |-> a, status |-> s,
     processing |-> window.isProcessing, running |-> Len(window.runs)]

\* updateImageDisplays(): the processed label shows processedImage when it
\* has a width, the original otherwise.
UpdateImageDisplays(w) ==
    [w EXCEPT !.shown = IF w.originalImage.file = 0 THEN Unloaded
                        ELSE IF w.processedImage.file # 0
                        THEN w.processedImage
                        ELSE w.originalImage]

\* if (previewEnabled) previewTimer.start();
StartPreviewTimer(w) ==
    IF w.previewEnabled THEN [w EXCEPT !.previewTimer = TRUE] ELSE w

\* What ends the process rather than the call: std::terminate, when the
\* exception of Image::at leaves an OpenMP parallel region, and a fault of
\* a kernel's read past the end of its input.
ProcessEnds == {"std::terminate", "fault"}

\* The input events are dispatched while the process is alive and the
\* modal save dialog is closed.
Dispatching == ~window.ended /\ ~window.saveDialog

\* The filter after an apply that returned: the classes that measure
\* themselves have written lastExecutionTime.
Timed(f) ==
    IF f.type \in TimedTypes THEN {[f EXCEPT !.time = d] : d \in Durations}
    ELSE {f}

\* filters[i]->apply(temp, result) on an image of the window, and how the
\* call ends.  The host grayscale throws below three channels, out of
\* apply or, from a parallel region, into std::terminate.  The accelerator
\* variant runs its kernel, which below three channels reads past the end
\* of its input and may fault, or falls back to the host class.
\* BoxBlurFilterGPU may throw the std::bad_alloc of its staging vectors.
\* Every other filter keeps the shape.  An apply that throws or ends the
\* process does so before it writes lastExecutionTime.
StageOutcomes(f, img) ==
    CASE f.type = "GrayscaleFilter" ->
             IF img.channels < 3
             THEN {[end |-> e, image |-> img, filter |-> f]
                      : e \in {"threw", "std::terminate"}}
             ELSE {[end |-> "returned",
                    image |-> [img EXCEPT !.channels = 1],
                    filter |-> t] : t \in Timed(f)}
      [] f.type = "GrayscaleFilterGPU" ->
             {[end |-> "returned",
               image |-> [img EXCEPT !.channels = 1],
               filter |-> t] : t \in Timed(f)}
                 \cup (IF img.channels < 3
                       THEN {[end |-> e, image |-> img, filter |-> f]
                                : e \in {"threw", "std::terminate", "fault"}}
                       ELSE {})
      [] f.type = "BoxBlurFilterGPU" ->
             {[end |-> "returned", image |-> img, filter |-> t]
                 : t \in Timed(f)}
                 \cup {[end |-> "threw", image |-> img, filter |-> f]}
      [] OTHER -> {[end |-> "returned", image |-> img, filter |-> t]
                      : t \in Timed(f)}

\* pipeline.apply(originalImage): the stages from slot k on, and the slots
\* as the stages that ran leave them.
RECURSIVE PipelineOutcomes(_, _, _)
PipelineOutcomes(seq, k, img) ==
    IF k > Len(seq)
    THEN {[end |-> "returned", image |-> img, filters |-> seq]}
    ELSE UNION {IF o.end # "returned"
                THEN {[end |-> o.end, image |-> o.image, filters |-> seq]}
                ELSE PipelineOutcomes([seq EXCEPT ![k] = o.filter], k + 1,
                                      o.image)
                   : o \in StageOutcomes(seq[k], img)}

\* The catch block of applyFilters.
Caught(w) == [w EXCEPT !.applyButton = TRUE, !.isProcessing = FALSE]

\* The process ended inside a stage: no handler runs again.
Ended(w) == [w EXCEPT !.ended = TRUE]

\* The status a handler that applied the pipeline is recorded with.
ApplyStatus(o, returned) == IF o.end = "returned" THEN returned ELSE o.end

\* The else branch of applyFilters: processedImage =
\* pipeline.apply(originalImage); updateImageDisplays(); or the catch block.
QuickApply(w, o) ==
    CASE o.end = "threw"     -> Caught(w)
      [] o.end \in ProcessEnds -> Ended(w)
      [] OTHER -> UpdateImageDisplays([w EXCEPT !.processedImage = o.image])

\* updateFilterList(): the list is cleared and filled again, which leaves
\* it without a current row.
UpdateFilterList(w) == [w EXCEPT !.row = 0 - 1]

\* onFilterSelected(index), the slot of the list's currentRowChanged: for
\* a row of the pipeline seq the slider is enabled exactly for a
\* BrightnessFilter and the spin box exactly for a BoxBlurFilter.
FilterSelected(w, seq, index) ==
    IF index >= 0 /\ index < Len(seq)
    THEN [w EXCEPT !.slider = (Entry(seq, index).type = "BrightnessFilter"),
                   !.spinBox = (Entry(seq, index).type = "BoxBlurFilter")]
    ELSE w

\* filterListWidget->setCurrentRow(index), from a handler or a click on
\* the row.
SetCurrentRow(w, seq, index) ==
    FilterSelected([w EXCEPT !.row = index], seq, index)

\* loadImage(filepath) with a file that loads, from onFileOpen.
LoadImage(img) ==
    /\ Dispatching
    /\ filters' = <<>>
    /\ window' = UpdateFilterList(UpdateImageDisplays(
                     [window EXCEPT !.originalImage = img,
                                    !.brightnessFilter = 0,
                                    !.blurFilter = 0,
                                    !.controls = TRUE,
                                    !.slider = TRUE,
                                    !.spinBox = TRUE,
                                    !.applyButton = FALSE]))
    /\ lastCall' = WindowCall("loadImage", 0, img, "ok")
    /\ UNCHANGED <<nextId, file, copy, registry, processingMode, copyMode,
                   heap, applyVars>>

\* onFileSave() up to QFileDialog::getSaveFileName: the error box when
\* processedImage has no width, the modal dialog otherwise.
OnFileSave ==
    /\ Dispatching
    /\ window.controls
    /\ IF window.processedImage.file = 0
       THEN /\ lastCall' = WindowCall("onFileSave", 0, Unloaded, "error")
            /\ UNCHANGED window
       ELSE /\ lastCall' = WindowCall("onFileSave", 0, window.processedImage,
                                      "dialog")
            /\ window' = [window EXCEPT !.saveDialog = TRUE]
    /\ UNCHANGED <<filters, nextId, file, copy, registry, processingMode,
                   copyMode, heap, applyVars>>

\* How the save dialog ends: cancelled, or a path chosen and saveImage
\* writing it or failing to.
SaveEndings == {"cancelled", "saved", "failed"}

\* The dialog returns and onFileSave goes on: saveImage(filepath) writes
\* processedImage as it is by then.
SaveDialogReturn(ending) ==
    /\ ~window.ended
    /\ window.saveDialog
    /\ window' = [window EXCEPT !.saveDialog = FALSE]
    /\ lastCall' = WindowCall("onFileSave", 0, window.processedImage, ending)
    /\ UNCHANGED <<filters, nextId, file, copy, registry, processingMode,
                   copyMode, heap, applyVars>>

\* onAddFilter() with the menu entry of id chosen.
OnAddFilter(id) ==
    /\ Dispatching
    /\ window.controls
    /\ nextId <= MaxIds
    /\ Len(filters) < MaxStages
    /\ LET made   == Create(id, window.gpuEnabled)
           cached == IF id = "brightness"
                     THEN [window EXCEPT !.brightnessFilter = nextId]
                     ELSE IF id = "boxblur" /\ ~window.gpuEnabled
                     THEN [window EXCEPT !.blurFilter = nextId]
                     ELSE window
       IN  /\ made # Null
           /\ filters' = Append(filters, WithId(made, nextId))
           /\ nextId' = nextId + 1
           /\ heap' = [heap EXCEPT !.storage = TRUE]
           /\ window' = StartPreviewTimer(UpdateFilterList(cached))
           /\ lastCall' = WindowCall("onAddFilter", 0, id, "ok")
    /\ UNCHANGED <<file, copy, registry, processingMode, copyMode, applyVars>>

\* A click on a row of the filter list other than the current one.
OnFilterSelected(index) ==
    /\ Dispatching
    /\ index \in 0..(Len(filters) - 1)
    /\ index # window.row
    /\ window' = SetCurrentRow(window, filters, index)
    /\ lastCall' = WindowCall("onFilterSelected", index, Null, "ok")
    /\ UNCHANGED <<filters, nextId, file, copy, registry, processingMode,
                   copyMode, heap, applyVars>>

\* An onRemoveFilter that leaves the cached pointers as they are.
OnRemoveFilterKeeping ==
    /\ Dispatching
    /\ filters # <<>>
    /\ LET index == window.row
       IN  IF index >= 0 /\ index < Len(filters)
           THEN /\ filters' = SubSeq(filters, 1, index)
                                 \o SubSeq(filters, index + 2, Len(filters))
                /\ window' = StartPreviewTimer(UpdateFilterList(window))
                /\ lastCall' = WindowCall("onRemoveFilter", index, Null, "ok")
           ELSE /\ lastCall' = WindowCall("onRemoveFilter", index, Null,
                                          "ignored")
                /\ UNCHANGED <<filters, window, heap>>
    /\ UNCHANGED <<nextId, file, copy, registry, processingMode, copyMode,
                   heap, applyVars>>

\* onRemoveFilter(): the button is enabled while the pipeline has a slot,
\* and the handler removes the current row of the list.
OnRemoveFilter ==
    /\ Dispatching
    /\ filters # <<>>
    /\ LET index == window.row
       IN  IF index >= 0 /\ index < Len(filters)
           THEN /\ LET filter == Entry(filters, index).id
                       first  == IF filter = window.brightnessFilter
                                 THEN [window EXCEPT !.brightnessFilter = 0]
                                 ELSE window
                       second == IF filter = first.blurFilter
                                 THEN [first EXCEPT !.blurFilter = 0]
                                 ELSE first
                   IN  window' = StartPreviewTimer(UpdateFilterList(second))
                /\ filters' = SubSeq(filters, 1, index)
                                 \o SubSeq(filters, index + 2, Len(filters))
                /\ lastCall' = WindowCall("onRemoveFilter", index, Null, "ok")
           ELSE /\ lastCall' = WindowCall("onRemoveFilter", index, Null,
                                          "ignored")
                /\ UNCHANGED <<filters, window, heap>>
    /\ UNCHANGED <<nextId, file, copy, registry, processingMode, copyMode,
                   heap, applyVars>>

\* onMoveFilterUp(): the current row moves up and stays the current row.
OnMoveFilterUp ==
    /\ Dispatching
    /\ filters # <<>>
    /\ LET index == window.row
       IN  IF index > 0
           THEN /\ filters' = Swap(filters, index, index - 1)
                /\ window' = StartPreviewTimer(
                                 SetCurrentRow(window, filters', index - 1))
                /\ lastCall' = WindowCall("onMoveFilterUp", index, Null, "ok")
           ELSE /\ lastCall' = WindowCall("onMoveFilterUp", index, Null,
                                          "ignored")
                /\ UNCHANGED <<filters, window, heap>>
    /\ UNCHANGED <<nextId, file, copy, registry, processingMode, copyMode,
                   heap, applyVars>>

\* onMoveFilterDown(): the current row moves down and stays the current
\* row.
OnMoveFilterDown ==
    /\ Dispatching
    /\ filters # <<>>
    /\ LET index == window.row
       IN  IF index >= 0 /\ index < Len(filters) - 1
           THEN /\ filters' = Swap(filters, index, index + 1)
                /\ window' = StartPreviewTimer(
                                 SetCurrentRow(window, filters', index + 1))
                /\ lastCall' = WindowCall("onMoveFilterDown", index, Null,
                                          "ok")
           ELSE /\ lastCall' = WindowCall("onMoveFilterDown", index, Null,
                                          "ignored")
                /\ UNCHANGED <<filters, window, heap>>
    /\ UNCHANGED <<nextId, file, copy, registry, processingMode, copyMode,
                   heap, applyVars>>

\* onClearPipeline() with the question answered Yes; the button is enabled
\* while the pipeline has a slot.
OnClearPipeline ==
    /\ Dispatching
    /\ filters # <<>>
    /\ filters' = <<>>
    /\ window' = UpdateImageDisplays(
                     UpdateFilterList([window EXCEPT !.brightnessFilter = 0,
                                                     !.blurFilter = 0]))
    /\ lastCall' = WindowCall("onClearPipeline", 0, Null, "ok")
    /\ UNCHANGED <<nextId, file, copy, registry, processingMode, copyMode,
                   heap, applyVars>>

\* onPreviewToggle(enabled): the check box toggled.
OnPreviewToggle ==
    /\ Dispatching
    /\ window.controls
    /\ LET enabled == ~window.previewEnabled
       IN  /\ window' = [window EXCEPT
                            !.previewEnabled = enabled,
                            !.previewTimer =
                                IF enabled /\ filters # <<>> THEN TRUE ELSE @]
           /\ lastCall' = WindowCall("onPreviewToggle", 0, enabled, "ok")
    /\ UNCHANGED <<filters, nextId, file, copy, registry, processingMode,
                   copyMode, heap, applyVars>>

\* onGPUToggle(enabled): the check box toggled.
OnGPUToggle ==
    /\ Dispatching
    /\ window.controls
    /\ LET enabled == ~window.gpuEnabled
       IN  /\ window' = [window EXCEPT !.gpuEnabled = enabled]
           /\ processingMode' = IF enabled THEN "GPU_PREFERRED"
                                           ELSE "CPU_ONLY"
           /\ lastCall' = WindowCall("onGPUToggle", 0, enabled, "ok")
    /\ UNCHANGED <<filters, nextId, file, copy, copyMode, heap, registry,
                   applyVars>>

\* The filter f with one member overwritten by a write that was meant for
\* another object.
Overwritten(f, member) ==
    CASE member = "radius" -> [f EXCEPT !.radius = Indeterminate]
      [] member = "factor" -> [f EXCEPT !.factor = Indeterminate]
      [] OTHER             -> [f EXCEPT !.time = Indeterminate]

\* What a write through a pointer to a destroyed filter can do: land in
\* storage nothing uses, land in a filter allocated since, which the
\* allocator gave the storage to (any of its members, the layouts of the
\* classes differing), or end the process.
DanglingWrites(pointer) ==
    {[ended |-> FALSE, filters |-> filters],
     [ended |-> TRUE, filters |-> filters]}
        \cup {[ended |-> FALSE,
               filters |-> [filters EXCEPT ![k] = Overwritten(@, member)]]
                 : k \in {j \in DOMAIN filters : filters[j].id > pointer},
                   member \in {"radius", "factor", "time"}}

\* A write through a cached pointer: to the instance a slot holds, or,
\* when no slot holds it any more, to a destroyed object.
WriteThrough(o, pointer, value, changed) ==
    IF pointer = 0
    THEN /\ lastCall' = WindowCall(o, 0, value, "skipped")
         /\ UNCHANGED <<filters, window, heap>>
    ELSE IF \E k \in DOMAIN filters : filters[k].id = pointer
    THEN /\ filters' = Patch(filters, pointer, changed)
         /\ window' = StartPreviewTimer(window)
         /\ lastCall' = WindowCall(o, 0, value, "ok")
    ELSE \E write \in DanglingWrites(pointer) :
             /\ lastCall' = WindowCall(o, 0, value, "dangling")
             /\ filters' = write.filters
             /\ window' = IF write.ended THEN Ended(window)
                          ELSE StartPreviewTimer(window)

\* The instance a cached pointer points to, while a slot holds it.
Pointee(pointer) ==
    IF \E k \in DOMAIN filters : filters[k].id = pointer
    THEN (CHOOSE f \in {filters[k] : k \in DOMAIN filters} : f.id = pointer)
    ELSE Null

\* onBrightnessChanged(value): the slider is enabled and moved.
OnBrightnessChanged(value) ==
    /\ Dispatching
    /\ window.slider
    /\ LET f == Pointee(window.brightnessFilter)
       IN  WriteThrough("onBrightnessChanged", window.brightnessFilter, value,
                        IF f = Null THEN Null ELSE [f EXCEPT !.factor = value])
    /\ UNCHANGED <<nextId, file, copy, registry, processingMode, copyMode,
                   heap, applyVars>>

\* onBlurRadiusChanged(value): the spin box is enabled and changed.
OnBlurRadiusChanged(value) ==
    /\ Dispatching
    /\ window.spinBox
    /\ LET f == Pointee(window.blurFilter)
       IN  WriteThrough("onBlurRadiusChanged", window.blurFilter, value,
                        IF f = Null THEN Null
                        ELSE [f EXCEPT !.radius = StoredRadius(f, value)])
    /\ UNCHANGED <<nextId, file, copy, registry, processingMode, copyMode,
                   heap, applyVars>>

\* updatePreview(), the timeout of the single-shot preview timer, and the
\* applyFilters(true) it calls.  The event loop of the modal save dialog
\* dispatches it as well.
UpdatePreview ==
    /\ ~window.ended
    /\ window.previewTimer
    /\ LET fired == [window EXCEPT !.previewTimer = FALSE]
       IN  IF ~window.previewEnabled \/ window.originalImage.file = 0
                \/ filters = <<>>
           THEN /\ window' = fired
                /\ lastCall' = WindowCall("updatePreview", 0, Null, "skipped")
                /\ UNCHANGED filters
           ELSE \E o \in PipelineOutcomes(filters, 1, window.originalImage) :
                    /\ window' = QuickApply(fired, o)
                    /\ filters' = o.filters
                    /\ lastCall' = WindowCall("updatePreview", 0, Null,
                                              ApplyStatus(o, "applied"))
    /\ UNCHANGED <<nextId, file, copy, registry, processingMode, copyMode,
                   heap, applyVars>>

\* onApplyPipeline(), a click on the enabled apply button, and
\* applyFilters(false) up to the first progress callback of
\* applyWithProgress (or the else branch when isProcessing is set).
OnApplyPipeline ==
    /\ Dispatching
    /\ window.applyButton
    /\ IF window.originalImage.file = 0 \/ filters = <<>>
       THEN /\ lastCall' = WindowCall("onApplyPipeline", 0, Null, "refused")
            /\ UNCHANGED <<filters, window, heap>>
       ELSE IF ~window.isProcessing
       THEN /\ Len(window.runs) < MaxRuns
            /\ \E o \in StageOutcomes(filters[1], window.originalImage) :
                   /\ window' =
                          CASE o.end = "threw" -> Caught(window)
                            [] o.end \in ProcessEnds -> Ended(window)
                            [] OTHER ->
                                 [window EXCEPT
                                     !.isProcessing = TRUE,
                                     !.applyButton = FALSE,
                                     !.runs = Append(@, [i |-> 0,
                                                         result |-> o.image])]
                   /\ filters' = [filters EXCEPT ![1] = o.filter]
                   /\ lastCall' = WindowCall("onApplyPipeline", 0, Null,
                                             ApplyStatus(o, "started"))
       ELSE \E o \in PipelineOutcomes(filters, 1, window.originalImage) :
                /\ window' = QuickApply(window, o)
                /\ filters' = o.filters
                /\ lastCall' = WindowCall("onApplyPipeline", 0, Null,
                                          ApplyStatus(o, "applied"))
    /\ UNCHANGED <<nextId, file, copy, registry, processingMode, copyMode,
                   heap, applyVars>>

\* QApplication::processEvents() returns in the innermost progress
\* callback: ++i, and either the next stage and its callback, or the return
\* of applyWithProgress and the rest of applyFilters (the catch block when
\* the stage throws).
ProcessEventsReturn ==
    /\ Dispatching
    /\ window.runs # <<>>
    /\ LET depth  == Len(window.runs)
           top    == window.runs[depth]
           i      == top.i + 1
           popped == [window EXCEPT !.runs = SubSeq(@, 1, depth - 1)]
       IN  IF i < Len(filters)
           THEN \E o \in StageOutcomes(Entry(filters, i), top.result) :
                    /\ window' =
                           CASE o.end = "threw" -> Caught(popped)
                             [] o.end \in ProcessEnds -> Ended(window)
                             [] OTHER ->
                                  [window EXCEPT
                                      !.runs[depth] = [i |-> i,
                                                       result |-> o.image]]
                    /\ filters' = [filters EXCEPT ![i + 1] = o.filter]
           ELSE /\ window' = UpdateImageDisplays(
                                 [popped EXCEPT !.processedImage = top.result,
                                                !.applyButton = TRUE,
                                                !.isProcessing = FALSE])
                /\ UNCHANGED filters
    /\ UNCHANGED <<nextId, lastCall, file, copy, registry, processingMode,
                   copyMode, heap, applyVars>>

InitWindow == Init

NextWindow ==
    \/ \E img \in LoadableImages : LoadImage(img)
    \/ OnFileSave
    \/ \E ending \in SaveEndings : SaveDialogReturn(ending)
    \/ \E id \in MenuIds : OnAddFilter(id)
    \/ \E index \in 0..(MaxStages - 1) : OnFilterSelected(index)
    \/ OnRemoveFilter
    \/ OnMoveFilterUp
    \/ OnMoveFilterDown
    \/ OnClearPipeline
    \/ OnPreviewToggle
    \/ OnGPUToggle
    \/ \E value \in SliderValues : OnBrightnessChanged(value)
    \/ \E value \in SpinBoxValues : OnBlurRadiusChanged(value)
    \/ UpdatePreview
    \/ OnApplyPipeline
    \/ ProcessEventsReturn

SpecWindow == InitWindow /\ [][NextWindow]_vars

\* The window with the accelerator box left unchecked, as constructed:
\* every event but the box's toggle.
NextHostWindow ==
    \/ \E img \in LoadableImages : LoadImage(img)
    \/ OnFileSave
    \/ \E ending \in SaveEndings : SaveDialogReturn(ending)
    \/ \E id \in MenuIds : OnAddFilter(id)
    \/ \E index \in 0..(MaxStages - 1) : OnFilterSelected(index)
    \/ OnRemoveFilter
    \/ OnMoveFilterUp
    \/ OnMoveFilterDown
    \/ OnClearPipeline
    \/ OnPreviewToggle
    \/ \E value \in SliderValues : OnBrightnessChanged(value)
    \/ \E value \in SpinBoxValues : OnBlurRadiusChanged(value)
    \/ UpdatePreview
    \/ OnApplyPipeline
    \/ ProcessEventsReturn

SpecHostWindow == InitWindow /\ [][NextHostWindow]_vars

\* The events around a run of the pipeline, host and accelerator filters
\* alike: loading, the accelerator box, adding, selecting, removing,
\* moving and clearing, the preview timer, the apply button and the return
\* of processEvents.
NextRuns ==
    \/ \E img \in LoadableImages : LoadImage(img)
    \/ OnGPUToggle
    \/ \E id \in MenuIds : OnAddFilter(id)
    \/ \E index \in 0..(MaxStages - 1) : OnFilterSelected(index)
    \/ OnRemoveFilter
    \/ OnMoveFilterUp
    \/ OnMoveFilterDown
    \/ OnClearPipeline
    \/ UpdatePreview
    \/ OnApplyPipeline
    \/ ProcessEventsReturn

SpecRuns == InitWindow /\ [][NextRuns]_vars

\* The events that reach the cached pointers or the slots they point into:
\* adding with the accelerator box on or off, selecting a row, removing,
\* moving, clearing, loading an image, and the two parameter controls.
NextPointers ==
    \/ \E img \in LoadableImages : LoadImage(img)
    \/ \E id \in MenuIds : OnAddFilter(id)
    \/ \E index \in 0..(MaxStages - 1) : OnFilterSelected(index)
    \/ OnRemoveFilter
    \/ OnMoveFilterUp
    \/ OnMoveFilterDown
    \/ OnClearPipeline
    \/ OnGPUToggle
    \/ \E value \in SliderValues : OnBrightnessChanged(value)
    \/ \E value \in SpinBoxValues : OnBlurRadiusChanged(value)

SpecPointers == InitWindow /\ [][NextPointers]_vars

(***************************************************************************)
(* Properties of FilterPipeline::apply (SpecApply).                        *)
(***************************************************************************)
\* The images a stage may leave for the input it was given: the host
\* filter's output, or, for an accelerator variant, the kernel's or the
\* fallback's.
StageOutputs(f, image) ==
    IF f.type \in GpuTypes
    THEN {HostOutput(FallbackFilter(f), image)}
             \cup {KernelOutput(f, image)}
    ELSE {HostOutput(f, image)}

\* C1: apply threads the buffer through the slots in order.  The stages
\* begin and end alternately, slot 1 first and without a gap; stage 1 reads
\* the input, stage i+1 reads exactly what stage i left, each stage leaves
\* an output of its own filter for what it read, and the image returned is
\* the last stage's output.
ApplyThreadsStages ==
    /\ \A k \in 1..Len(trace) :
          IF k % 2 = 1
          THEN /\ trace[k].ev = "begin"
               /\ trace[k].slot = (k + 1) \div 2
               /\ trace[k].img = IF k = 1 THEN input ELSE trace[k - 1].img
          ELSE /\ trace[k].ev = "end"
               /\ trace[k].slot = k \div 2
               /\ trace[k].img
                      \in StageOutputs(filters[k \div 2], trace[k - 1].img)
    /\ (pc = "returned" /\ filters # <<>>) =>
          /\ Len(trace) = 2 * Len(filters)
          /\ result = trace[Len(trace)].img

\* A two-stage apply returned, and both stages changed the image.
ApplyThreadsStagesWitness ==
    /\ pc = "returned"
    /\ Len(filters) = 2
    /\ Len(trace) = 4
    /\ trace[2].img # trace[1].img
    /\ trace[4].img # trace[3].img
    /\ result # input

\* C2: once started, apply runs to completion and returns an image: no
\* exception leaves it part-way through the stages.
ApplyRunsToCompletion == pc # "threw"

\* C3: an accelerator variant's apply always returns normally: no failure
\* leaves it, whether the context cannot be acquired or the kernel fails.
GpuApplyNeverFails == ~(pc = "threw" /\ Current.type \in GpuTypes)

\* The output of the host filter with the parameters of the accelerator
\* variant f, for the input the stage was given.
HostTwinOutput(f) ==
    IF f.type = "GrayscaleFilterGPU" THEN GrayscaleOutput(temp)
    ELSE BoxBlurOutput(temp, f.radius)

\* C4: when an accelerator variant's apply is about to return, its
\* lastExecutionTime holds the duration just measured, on either path, and
\* on the fallback path the output is the host filter's for the same input
\* and the same radius.
FallbackMatchesHost ==
    pc = "Done" =>
        /\ measured \in Durations
        /\ Current.time = measured
        /\ path \in {"accelerator", "fallback"}
        /\ path = "fallback" => result = HostTwinOutput(Current)

\* A blur's accelerator variant fell back and the host blur changed the
\* image (radius 2 on an image three pixels wide).
FallbackMatchesHostWitness ==
    /\ pc = "Done"
    /\ path = "fallback"
    /\ Current.type = "BoxBlurFilterGPU"
    /\ temp.w = 3
    /\ result # temp

\* C5: the accelerator variant's output has the dimensions of the host
\* variant's for the same input, and no byte differs by more than 1.
VariantsAgreeWithinOne ==
    (/\ pc = "Done"
     /\ path = "accelerator"
     /\ ~HostThrows(FallbackFilter(Current), temp)) =>
        LET host == HostOutput(FallbackFilter(Current), temp)
        IN  /\ result.w = host.w
            /\ result.h = host.h
            /\ result.c = host.c
            /\ Len(result.px) = Len(host.px)
            /\ \A k \in 1..Len(host.px) :
                   /\ result.px[k] - host.px[k] <= 1
                   /\ host.px[k] - result.px[k] <= 1

(***************************************************************************)
(* Properties of saveToFile / loadFromFile (SpecPersist).                  *)
(***************************************************************************)
\* C6: loading the file a pipeline was saved to succeeds and rebuilds the
\* saved stages: the same names (so the same getDescription() and the same
\* parameters) and the same filter classes, in the same order.
SaveLoadRoundTrip ==
    (lastCall.op = "loadFromFile" /\ file.state = "saved") =>
        /\ lastCall.status = "true"
        /\ SavedEntries(filters) = file.entries

\* C7: loadFromFile on a missing or malformed file returns false and leaves
\* the slots as they were.
FailedLoadKeepsPipeline ==
    (lastCall.op = "loadFromFile" /\ file.state \in {"missing", "malformed"})
        => /\ lastCall.status = "false"
           /\ filters = lastCall.before

(***************************************************************************)
(* Properties of the editing operations (Spec).                            *)
(***************************************************************************)
\* C8: removeFilter, moveFilterUp and moveFilterDown fail with
\* std::out_of_range and leave the slots unchanged for every index >=
\* size(), the two silent no-ops moveFilterUp(0) and
\* moveFilterDown(size() - 1) excepted.
OutOfRangeIndexFails ==
    (/\ lastCall.op \in {"removeFilter", "moveFilterUp", "moveFilterDown"}
     /\ SizeGe(lastCall.index, Len(lastCall.before))
     /\ ~(lastCall.op = "moveFilterUp" /\ lastCall.index = 0)
     /\ ~(/\ lastCall.op = "moveFilterDown"
          /\ lastCall.index = Len(lastCall.before) - 1)) =>
        /\ lastCall.status = "std::out_of_range"
        /\ filters = lastCall.before

\* C9: reordering keeps the pipeline a permutation of the same instances:
\* every moveFilterUp and moveFilterDown call returns with size() and the
\* instances held unchanged; moveFilterUp(i), 1 <= i < size(), has
\* exchanged the entries at i-1 and i, and moveFilterDown(i) with entries
\* at i and i+1 has exchanged those two, nothing else having moved;
\* moveFilterUp(0) and moveFilterDown(size()-1) have changed nothing.  The
\* empty pipeline is a pipeline: a call on it returns with it empty.
ReorderExchangesNeighbours ==
    LET b == lastCall.before
        i == lastCall.index
        n == Len(lastCall.before)
        Exchanged(lo) ==
            /\ Entry(filters, lo) = Entry(b, lo + 1)
            /\ Entry(filters, lo + 1) = Entry(b, lo)
            /\ \A k \in 0..(n - 1) :
                   k \notin {lo, lo + 1} => Entry(filters, k) = Entry(b, k)
    IN  lastCall.op \in {"moveFilterUp", "moveFilterDown"} =>
            /\ lastCall.status = "ok"
            /\ Len(filters) = n
            /\ {filters[k].id : k \in 1..n} = {b[k].id : k \in 1..n}
            /\ (lastCall.op = "moveFilterUp" /\ 1 <= i /\ i < n) =>
                   Exchanged(i - 1)
            /\ (lastCall.op = "moveFilterDown" /\ 0 <= i /\ i + 1 < n) =>
                   Exchanged(i)
            /\ (lastCall.op = "moveFilterUp" /\ i = 0) => filters = b
            /\ (lastCall.op = "moveFilterDown" /\ i = n - 1) => filters = b

\* C10: addFilter(null) fails with std::invalid_argument and leaves the
\* slots unchanged; addFilter(f) makes the pipeline one longer, with f in
\* the last slot and every earlier entry where it was.
AddFilterAppends ==
    LET b == lastCall.before
    IN  lastCall.op = "addFilter" =>
            IF lastCall.arg = Null
            THEN /\ lastCall.status = "std::invalid_argument"
                 /\ filters = b
            ELSE /\ lastCall.status = "ok"
                 /\ Len(filters) = Len(b) + 1
                 /\ filters[Len(filters)] = lastCall.arg
                 /\ \A k \in 1..Len(b) : filters[k] = b[k]

\* C11: insertFilter(index, f) with index > size() fails with
\* std::out_of_range and leaves the slots unchanged; with index <= size()
\* and f non-null, f is at position index afterwards, the entries formerly
\* at positions >= index are one position further right in the same order,
\* and the entries at positions < index are where they were.
InsertFilterShifts ==
    LET b == lastCall.before
        i == lastCall.index
        n == Len(lastCall.before)
    IN  lastCall.op = "insertFilter" =>
            /\ SizeGt(i, n) =>
                   /\ lastCall.status = "std::out_of_range"
                   /\ filters = b
            /\ (~SizeGt(i, n) /\ lastCall.arg # Null) =>
                   /\ lastCall.status = "ok"
                   /\ Len(filters) = n + 1
                   /\ Entry(filters, i) = lastCall.arg
                   /\ \A k \in 0..(n - 1) :
                          IF k < i THEN Entry(filters, k) = Entry(b, k)
                          ELSE Entry(filters, k + 1) = Entry(b, k)

(***************************************************************************)
(* Properties of two pipeline objects (SpecCopy, SpecTwin).                *)
(***************************************************************************)
\* The slots of both pipeline objects, one after the other.
AllSlots == filters \o copy

FirstOps ==
    {"addFilter", "removeFilter", "moveFilterUp", "setRadius",
     "setBrightness"}

SecondOps == {"second." \o name : name \in FirstOps}

CloneHasNoTimingHistory ==
    LET made == CASE lastCall.op = "FilterPipeline(const FilterPipeline&)"
                       -> copy
                  [] lastCall.op = "operator="
                       /\ lastCall.status = "second = first" -> copy
                  [] lastCall.op = "operator="
                       /\ lastCall.status = "first = second" -> filters
                  [] OTHER -> <<>>
        from == IF made = <<>> THEN <<>>
                ELSE IF lastCall.status = "first = second" THEN copy
                ELSE filters
    IN  \A k \in 1..Len(made) :
            /\ made[k].type = from[k].type
            /\ made[k].radius = from[k].radius
            /\ made[k].factor = from[k].factor
            /\ made[k].id # from[k].id
            /\ made[k].time = 0

\* The invocations of the callback so far are the stages completed so far,
\* in order: the k-th came when exactly the k first stages had begun and
\* ended, and carries the name of stage k.
CallbacksFollowStages ==
    /\ Len(progress) <= Len(filters)
    /\ \A k \in 1..Len(progress) :
          /\ progress[k].events = 2 * k
          /\ progress[k].seen = trace[2 * k].img
          /\ progress[k].name = GetName(filters[k])

\* C15: applyWithProgress invokes the callback once per stage, the k-th
\* time after stage k has completed and before stage k + 1 begins, with the
\* name of stage k and the percentage 100 * k / N, a whole percentage where
\* that is whole (the last invocation reports 100) and otherwise a value
\* with the same whole part; a pipeline of no stages never invokes it; the
\* returned image is the one the stages produce.
ProgressReportsEachStage ==
    entry = "applyWithProgress" =>
        /\ CallbacksFollowStages
        /\ \A k \in 1..Len(progress) :
              LET n == Len(filters)
              IN  /\ F32Trunc(progress[k].percent) = (100 * k) \div n
                  /\ (100 * k) % n = 0 =>
                         progress[k].percent = F32(100 * k, n)
        /\ pc = "returned" =>
              /\ Len(progress) = Len(filters)
              /\ result = IF filters = <<>> THEN given
                          ELSE trace[Len(trace)].img

\* C16: apply(const Image&) and applyWithProgress never modify the image
\* the caller passed, at any point of the call and for a pipeline of any
\* length, the empty one included.
CallerInputUntouched ==
    entry \in {"apply", "applyWithProgress"} => input = given

\* A call that went through at least one stage and returned another image
\* than it was given.
CallerInputUntouchedWitness ==
    /\ entry \in {"apply", "applyWithProgress"}
    /\ pc = "returned"
    /\ filters # <<>>
    /\ result # given
    /\ input.px # <<>>

\* C17: on a pipeline of no stages, apply(const Image&), apply(Image&&) and
\* applyWithProgress return an image of the width, height, channels and
\* bytes the caller's image had.
EmptyPipelineReturnsInput ==
    (/\ filters = <<>>
     /\ pc = "returned"
     /\ entry \in {"apply", "apply(Image&&)", "applyWithProgress"})
        => /\ result.w = given.w
           /\ result.h = given.h
           /\ result.c = given.c
           /\ result.px = given.px

\* The rvalue overload returned on an empty pipeline: the bytes are in the
\* returned image and no longer in the caller's.
EmptyPipelineReturnsInputWitness ==
    /\ filters = <<>>
    /\ pc = "returned"
    /\ entry = "apply(Image&&)"
    /\ result.px # <<>>
    /\ input.px = <<>>

\* The stages of a completed call ran in order: stage i began on what stage
\* i - 1 ended with, the first on the caller's image.
StagesRanInOrder ==
    /\ Len(trace) = 2 * Len(filters)
    /\ \A i \in 1..Len(filters) :
          /\ trace[2 * i - 1].ev = "begin" /\ trace[2 * i - 1].slot = i
          /\ trace[2 * i].ev = "end" /\ trace[2 * i].slot = i
          /\ trace[2 * i - 1].img =
                IF i = 1 THEN given ELSE trace[2 * i - 2].img

\* C18: applyWithMetrics runs the stages in order and returns a record
\* whose filterNames and filterTimes have size() entries each, entry i the
\* name and the last execution time of stage i, and whose gpuUsed is true
\* exactly when some stage supports the accelerator and the processing mode
\* of the call is not CPU_ONLY.
MetricsDescribeStages ==
    (entry = "applyWithMetrics" /\ pc = "returned") =>
        /\ StagesRanInOrder
        /\ Len(metrics.filterNames) = Len(filters)
        /\ Len(metrics.filterTimes) = Len(filters)
        /\ \A i \in 1..Len(filters) :
              /\ metrics.filterNames[i] = GetName(filters[i])
              /\ metrics.filterTimes[i] = filters[i].time
        /\ lastCall.op = "applyWithMetrics"
        /\ metrics.gpuUsed <=>
              /\ lastCall.arg # "CPU_ONLY"
              /\ \E i \in 1..Len(filters) : SupportsGPU(filters[i])

\* A record for two stages, one of which supports the accelerator and has
\* measured a time, from a pipeline in CPU_ONLY mode.
MetricsDescribeStagesWitness ==
    /\ entry = "applyWithMetrics"
    /\ pc = "returned"
    /\ Len(filters) = 2
    /\ lastCall.op = "applyWithMetrics"
    /\ lastCall.arg = "CPU_ONLY"
    /\ \E i \in 1..2 : SupportsGPU(filters[i]) /\ filters[i].time > 0
    /\ ~metrics.gpuUsed

\* C19: a filter's apply leaves the output fully populated when it returns,
\* and when it raises an error the output is what it was before the call
\* (the image temp = std::move(result) left behind): not replaced, resized
\* or partly written.
ErrorLeavesOutputAlone ==
    /\ \A i \in 1..Len(trace) :
          trace[i].ev = "end" =>
              Len(trace[i].img.px) =
                  trace[i].img.w * trace[i].img.h * trace[i].img.c
    /\ pc = "threw" => result = MovedFrom(temp)

\* C20: create(id, useGPU) returns null exactly when id is not registered;
\* for a registered id it returns a fresh instance, built by the
\* accelerator constructor when useGPU is true and the id has one, by the
\* host constructor otherwise; it never returns an instance for an id that
\* getFilterIds() does not list.
CreateFollowsRegistry ==
    lastCall.op = "create" =>
        LET id   == lastCall.id
            made == lastCall.arg
        IN  /\ (made = Null) <=> (id \notin lastCall.listed)
            /\ id \in lastCall.listed =>
                  /\ made.id = nextId - 1
                  /\ [made EXCEPT !.id = 0] =
                        IF lastCall.useGPU /\ CreateGPU(id) # Null
                        THEN CreateGPU(id)
                        ELSE CreateCPU(id)

\* create("boxblur", true) returned a BoxBlurFilterGPU while "sepia" was
\* not registered yet.
CreateFollowsRegistryWitness ==
    /\ lastCall.op = "create"
    /\ lastCall.id = "boxblur"
    /\ lastCall.useGPU
    /\ lastCall.arg.type = "BoxBlurFilterGPU"
    /\ "sepia" \notin lastCall.listed

\* C21: registering an id that is registered already raises no error and
\* replaces its entry, every other entry staying as it was, so that create
\* and getFilterInfo reflect the last registration only; after
\* registerAllFilters, run once or again, the registry lists exactly
\* grayscale, invert, brightness, boxblur and sepia next to what other
\* registrations there were.
LastRegistrationWins ==
    /\ lastCall.op = "register" =>
          /\ GetFilterInfo(lastCall.id) = InfoOf(lastCall.like)
          /\ GetFilterIds = DOMAIN lastCall.held \cup {lastCall.id}
          /\ \A name \in DOMAIN lastCall.held \ {lastCall.id} :
                registry[name] = lastCall.held[name]
    /\ lastCall.op = "registerAllFilters" =>
          /\ GetFilterIds = RegisteredIds \cup DOMAIN lastCall.held
          /\ \A name \in RegisteredIds : registry[name] = InfoOf(name)
          /\ DOMAIN lastCall.held \subseteq RegisteredIds =>
                GetFilterIds = RegisteredIds
    /\ (lastCall.op = "create" /\ lastCall.arg # Null) =>
          [lastCall.arg EXCEPT !.id = 0] \in
              {GetFilterInfo(lastCall.id).createCPU,
               GetFilterInfo(lastCall.id).createGPU}

\* registerAllFilters ran again on a registry that listed the five ids and
\* in which invert had been registered a second time, with other classes.
LastRegistrationWinsWitness ==
    /\ lastCall.op = "registerAllFilters"
    /\ RegisteredIds \subseteq DOMAIN lastCall.held
    /\ lastCall.held["invert"] # InfoOf("invert")
    /\ GetFilterInfo("invert") = InfoOf("invert")

\* C22: supportsGPU() is true only for classes whose apply has an
\* accelerator path: a stage just completed by a filter that reports
\* supportsGPU() went through the accelerator attempt (it ran there, or fell
\* back from it), never through a host-only apply.
SupportsGPUMeansAcceleratorPath ==
    (pc = "loop" /\ idx > 1 /\ SupportsGPU(filters[idx - 1]))
        => path \in {"accelerator", "fallback"}

\* n = width * height * channels exactly, for positive operands.
IsProduct(n, width, height, channels) ==
    /\ n % channels = 0
    /\ (n \div channels) % height = 0
    /\ (n \div channels) \div height = width

\* C23: Image(width, height, channels) fails with std::invalid_argument if
\* one of the three is <= 0 and for all positive values yields an image of
\* exactly width * height * channels bytes, all zero; createEmptyLike()
\* yields a zero-filled image of its source's three dimensions.
ConstructionIsExact ==
    /\ lastCall.op = "Image" =>
          IF ImageCtorThrows(lastCall.width, lastCall.height,
                             lastCall.channels)
          THEN failure = "std::invalid_argument"
          ELSE /\ failure = "none"
               /\ result.w = lastCall.width
               /\ result.h = lastCall.height
               /\ result.c = lastCall.channels
               /\ IsProduct(Len(result.px), result.w, result.h, result.c)
               /\ \A k \in 1..Len(result.px) : result.px[k] = 0
    /\ lastCall.op = "createEmptyLike" =>
          /\ failure = "none"
          /\ result.w = input.w /\ result.h = input.h /\ result.c = input.c
          /\ \A k \in 1..Len(result.px) : result.px[k] = 0

\* C24: two InvertFilter stages in a row restore the image the first of
\* them was given: the same dimensions and the same byte at every position.
InvertTwiceRestores ==
    \A i \in 1..(Len(filters) - 1) :
        (/\ filters[i].type = "InvertFilter"
         /\ filters[i + 1].type = "InvertFilter"
         /\ Len(trace) >= 2 * i + 2)
            => trace[2 * i + 2].img = trace[2 * i - 1].img

\* A pipeline of two InvertFilter stages returned the image it was given,
\* the image in between being another one.
InvertTwiceRestoresWitness ==
    /\ pc = "returned"
    /\ Len(filters) = 2
    /\ filters[1].type = "InvertFilter"
    /\ filters[2].type = "InvertFilter"
    /\ result = given
    /\ trace[2].img # given
    /\ given.c = 4

\* C25: f.apply(img, img), with one Image object as input and output,
\* leaves img equal to what f.apply(img, out) writes to a distinct out for
\* the image img was before the call.
InPlaceMatchesDistinct ==
    lastCall.op = "apply(img, img)" =>
        /\ input = HostOutput(lastCall.arg, lastCall.image)
        /\ failure # "none" <=> HostThrows(lastCall.arg, lastCall.image)

\* C26: moveFilterDown(index) touches no slot outside [0, size()): on every
\* pipeline, the empty one included, and for every index the call returns
\* having exchanged two existing neighbours or having changed nothing; it
\* never runs into an access to an element the vector does not have.
MoveDownStaysInBounds ==
    lastCall.op = "moveFilterDown" =>
        /\ lastCall.status = "ok"
        /\ \/ filters = lastCall.before
           \/ /\ lastCall.index >= 0
              /\ lastCall.index + 1 < Len(lastCall.before)
              /\ filters = Swap(lastCall.before, lastCall.index,
                                lastCall.index + 1)

\* C27: the processing mode governs execution: while the mode is CPU_ONLY
\* no stage of a call is on the accelerator path, neither executing there
\* nor having completed there.
CpuOnlyStaysOnHost ==
    processingMode = "CPU_ONLY" =>
        /\ pc # "Execute"
        /\ path # "accelerator"

(***************************************************************************)
(* Properties of MainWindow (SpecWindow, SpecPointers).                    *)
(***************************************************************************)
\* The handlers that change the pipeline.
WindowMutators ==
    {"onAddFilter", "onRemoveFilter", "onMoveFilterUp", "onMoveFilterDown",
     "onClearPipeline", "loadImage"}

\* C28: while a full run is in progress (isProcessing set, applyWithProgress
\* on the stack) no handler changes the pipeline and no second apply of the
\* pipeline starts before the first has returned.
RunExcludesOtherEvents ==
    /\ (lastCall.op \in WindowMutators /\ lastCall.status = "ok")
           => ~lastCall.processing
    /\ (lastCall.op \in {"updatePreview", "onApplyPipeline"}
            /\ lastCall.status \in {"applied", "threw", "started"}
                                       \cup ProcessEnds)
           => lastCall.running = 0

\* C29: each cached pointer is null or points to an instance of its class
\* that a slot of the window's pipeline holds, and no parameter handler has
\* written through a pointer to a removed filter.
CachedPointersAreLive ==
    /\ window.brightnessFilter # 0 =>
           \E k \in DOMAIN filters :
               /\ filters[k].id = window.brightnessFilter
               /\ filters[k].type = "BrightnessFilter"
    /\ window.blurFilter # 0 =>
           \E k \in DOMAIN filters :
               /\ filters[k].id = window.blurFilter
               /\ filters[k].type = "BoxBlurFilter"
    /\ lastCall.status # "dangling"

\* The cached brightness filter was removed while an older one stayed in
\* the pipeline, and the slider then moved: nothing was written.
CachedPointersAreLiveWitness ==
    /\ lastCall.op = "onBrightnessChanged"
    /\ lastCall.status = "skipped"
    /\ \E k \in DOMAIN filters : filters[k].type = "BrightnessFilter"

\* C30: the image the processed label displays, and the image Save writes,
\* is derived from the original currently loaded.
ProcessedFollowsOriginal ==
    /\ window.shown.file \in {0, window.originalImage.file}
    /\ (lastCall.op = "onFileSave" /\ lastCall.status = "saved")
           => lastCall.arg.file = window.originalImage.file

====
